---- MODULE Spec2Model ----
(***************************************************************************)
(* Architecta core: the tool-based planning conversation                   *)
(* (sessions/planner-tools.ts) wrapped by the Orchestrator workflow        *)
(* (orchestrator/index.ts, orchestrator/state.ts).                         *)
(*                                                                         *)
(* One workflow is modelled. Every await is a suspension point: an         *)
(* operation runs up to its agent call in one step, the session function   *)
(* handles the agent's response (or failure) in a second step, and the     *)
(* Orchestrator method resumes with the value the session function         *)
(* returned in a third. Operations are issued one at a time (the caller    *)
(* awaits each one, and the event handler does not call the Orchestrator). *)
(*                                                                         *)
(* A second group of variables and actions (the ...On actions) models      *)
(* callers that do not await: several Orchestrators share the              *)
(* conversationStates map, any operation may be issued while agent calls   *)
(* are suspended, and each suspended call keeps the workflow identifier    *)
(* and the ConversationState object it was started with.                   *)
(***************************************************************************)
EXTENDS Integers, Sequences, FiniteSets, TLC

VARIABLES
  conv,             \* conversationStates.get(workflowId), see ConversationState
  wf,               \* Orchestrator.state (WorkflowState)
  inflight,         \* the operation suspended on an agent call, or Null
  agentCalls,       \* agent invocations made by the current / last operation
  last,             \* [op, outcome] of the current / last operation
  pre,              \* transcript length, pending-call state, phase and
                    \* iteration counter when that operation was issued
  lastRespHadCall,  \* the last agent response held a questions / playbook call
  config,           \* Orchestrator.config (OrchestratorConfig)
  routed,           \* the last route() call: what it read and what it returned
  orchs,            \* the Orchestrators: [id, state] of each (this.state)
  objects,          \* the ConversationState objects alive, by object number
  conversationStates, \* the map: workflow identifier -> object number
  calls,            \* the operations suspended: [k, o, op, id, obj, n,
                    \* answers, ret, full, streamed, criteria]
  issued,           \* operations, agent invocations and stream events so far
  lastStep,         \* [o, events] of the last step of an Orchestrator
  entry,            \* the transport store's WorkflowEntry of the workflow
  requests,         \* the requests the transport layer has handled so far
  emitted,          \* the event types the last agent response made the
                    \* engine emit, in order
  returning,        \* the value a session function has returned and the
                    \* awaiting caller has not resumed with yet
  fullResponse,     \* runReviewSession: the narrative streamed so far
  streamed,         \* runReviewSession: the stream events consumed so far
  arg,              \* the input a pure function of the program is applied to
  ret               \* what it returned, or the error it threw

\* The state of callers that do not await.
raceVars == <<orchs, objects, conversationStates, calls, issued, lastStep>>

\* The state of the transport layer.
storeVars == <<entry, requests>>

\* The input and the result of a pure function checked on its own.
pureVars == <<arg, ret>>

\* What the awaited operations other than route() leave alone.
aux == <<config, raceVars, storeVars, pureVars>>

serialVars ==
  <<conv, wf, inflight, agentCalls, last, pre, lastRespHadCall, emitted,
    returning, fullResponse, streamed>>

vars == <<serialVars, routed, aux>>

Null == "null"

\* Tool-use identifiers: the n-th identifier the API hands out, the literal
\* fallback identifiers of the resume functions, and null.
ToolUseId(n) == <<"toolu", n>>
FallbackId(name) == <<name, 0>>
NoId == <<Null, 0>>

\* WorkflowState.plan when undefined.
NoPlan == [raw |-> Null, playbook |-> Null]

----------------------------------------------------------------------------
(* Bounds of the model *)

MaxMsgs == 6          \* longest transcript explored
MaxAgentCalls == 3    \* most agent invocations explored within one operation
MaxReviews == 1       \* longest review history explored with the lifecycle
MaxHistory == 2       \* longest review history explored on its own
MaxHistoryMsgs == 2   \* longest transcript explored with that history
MaxOps == 5           \* most operations, agent invocations and stream events explored
MaxPairOps == 3       \* most of them explored on a pair of workflows
MaxTasks == 2         \* most tasks explored in the input of an output_plan call
MaxStream == 1        \* most stream events explored in one review session
MaxCalls == 2         \* most operations explored suspended together
MaxRequests == 4      \* most requests to the transport layer explored

(* Program constants *)

maxIterations == 3    \* DEFAULT_CONFIG.maxIterations

----------------------------------------------------------------------------
(* Values the agent and the caller can supply *)

QuestionLists == {"[]", "[q1]"}         \* input.questions: empty, one question
Playbooks == {"hotfix", "migration"}    \* proposed playbooks
RawPlans == {"rawPlan"}                 \* input of an output_plan call
DefaultPlaybook == "default_new_feature"

ASK == "ask_clarifying_questions"
PROPOSE == "propose_playbook"
OUTPUT == "output_plan"

TextBlock == [type |-> "text", name |-> Null, input |-> Null]
ToolBlock(n, i) == [type |-> "tool_use", name |-> n, input |-> i]

BlockShapes ==
  {TextBlock}
    \cup {ToolBlock(ASK, q) : q \in QuestionLists}
    \cup {ToolBlock(PROPOSE, p) : p \in Playbooks}
    \cup {ToolBlock(OUTPUT, r) : r \in RawPlans}

\* The contents of a response: one block, or two structured calls in one
\* response (a plan followed by questions, questions followed by a proposal).
ContentShapes ==
  {<<b>> : b \in BlockShapes}
    \cup {<<ToolBlock(OUTPUT, r), ToolBlock(ASK, q)>> :
            r \in RawPlans, q \in QuestionLists}
    \cup {<<ToolBlock(ASK, q), ToolBlock(PROPOSE, p)>> :
            q \in QuestionLists, p \in Playbooks}

Max(S) == CHOOSE x \in S : \A y \in S : y <= x

RECURSIVE MsgIds(_)
MsgIds(msgs) ==
  IF msgs = <<>> THEN {}
  ELSE LET m == Head(msgs)
           own == IF m.kind = "assistant"
                    THEN {m.content[i].id[2] : i \in 1..Len(m.content)}
                    ELSE {}
       IN own \cup MsgIds(Tail(msgs))

\* Tool-use identifiers are unique within a conversation: a response's
\* blocks get identifiers above every identifier the conversation holds.
IdBase(c) ==
  Max({0, c.lastToolUseId[2]} \cup MsgIds(c.messages))

WithIds(shape, base) ==
  [i \in 1..Len(shape) |->
     [type |-> shape[i].type, name |-> shape[i].name, input |-> shape[i].input,
      id |-> IF shape[i].type = "tool_use" THEN ToolUseId(base + i) ELSE NoId]]

HasToolUse(content) == \E i \in 1..Len(content) : content[i].type = "tool_use"

\* A messages.create response: its content blocks and its stop_reason.
Responses(c) ==
  {[content |-> WithIds(s, IdBase(c)), stop_reason |-> sr] :
     s \in ContentShapes, sr \in {"end_turn", "max_tokens", "tool_use"}}

AgentResponses(c) ==
  {r \in Responses(c) :
     (r.stop_reason = "tool_use") <=> HasToolUse(r.content)}

----------------------------------------------------------------------------
(* sessions/planner-tools.ts: the conversation engine *)

\* Transcript entries (MessageParam). An assistant entry keeps, per content
\* block, its type, tool name and identifier.
UserMessage(k) ==
  [role |-> "user", kind |-> k, tool_use_id |-> NoId, content |-> <<>>]
ToolResult(id) ==
  [role |-> "user", kind |-> "tool_result", tool_use_id |-> id, content |-> <<>>]
AssistantMessage(content) ==
  [role |-> "assistant", kind |-> "assistant", tool_use_id |-> NoId,
   content |-> [i \in 1..Len(content) |->
                  [type |-> content[i].type, name |-> content[i].name,
                   id |-> content[i].id]]]

\* No entry of the conversationStates map for the workflow.
NoConversation ==
  [exists |-> FALSE, messages |-> <<>>, pendingQuestions |-> Null,
   pendingPlaybook |-> Null, acceptedPlaybook |-> Null, lastToolUseId |-> NoId]

\* runToolBasedPlanningSession, up to its agent call.
NewConversation ==
  [exists |-> TRUE, messages |-> <<UserMessage("requirement")>>,
   pendingQuestions |-> Null, pendingPlaybook |-> Null,
   acceptedPlaybook |-> Null, lastToolUseId |-> NoId]

Push(c, m) == [c EXCEPT !.messages = Append(@, m)]

\* A resume function that always writes its literal fallback identifier.
ToolUseIdAlwaysFallback(c, fallback) == FallbackId(fallback)

\* state.lastToolUseId || "<fallback>"
ToolUseIdOr(c, fallback) ==
  IF c.lastToolUseId = NoId THEN FallbackId(fallback) ELSE c.lastToolUseId

\* A pending check that only looks for the conversation state and misses
\* the empty slot.
NoPendingCheckStateOnly(c) == ~c.exists

\* The guards of the resume functions (they throw when these hold).
NoPendingQuestions(c) == ~c.exists \/ c.pendingQuestions = Null
NoPendingPlaybook(c) == ~c.exists \/ c.pendingPlaybook = Null

\* conversationStates.get(workflowId)?.field: undefined when the workflow
\* has no conversation state.
Undefined == "undefined"
PendingQuestionsOf(c) == IF c.exists THEN c.pendingQuestions ELSE Undefined
PendingPlaybookOf(c) == IF c.exists THEN c.pendingPlaybook ELSE Undefined

\* v || null: null and undefined are falsy, arrays (the empty one too) and
\* objects are truthy.
OrNull(v) == IF v \in {Null, Undefined} THEN Null ELSE v

\* The pending-state queries: has... tests !== null, get... applies || null.
hasPendingQuestions(c) == PendingQuestionsOf(c) # Null
getPendingQuestions(c) == OrNull(PendingQuestionsOf(c))
hasPendingPlaybook(c) == PendingPlaybookOf(c) # Null
getPendingPlaybook(c) == OrNull(PendingPlaybookOf(c))

\* continueWithAnswers, up to its agent call.
ContinueWithAnswers(c) ==
  IF NoPendingQuestions(c)
    THEN [error |-> "no_pending", conv |-> c]
    ELSE [error |-> Null,
          conv |-> [Push(c, ToolResult(ToolUseIdOr(c, "questions_answered")))
                      EXCEPT !.pendingQuestions = Null]]

\* acceptPlaybook (session), up to its agent call.
AcceptPlaybookSession(c) ==
  IF NoPendingPlaybook(c)
    THEN [error |-> "no_pending", conv |-> c]
    ELSE [error |-> Null,
          conv |-> [Push(c, ToolResult(ToolUseIdOr(c, "playbook_accepted")))
                      EXCEPT !.acceptedPlaybook = c.pendingPlaybook,
                             !.pendingPlaybook = Null]]

\* A rejection that records the rejected proposal as the accepted one.
RejectAttachesProposal(c) ==
  IF NoPendingPlaybook(c)
    THEN [error |-> "no_pending", conv |-> c]
    ELSE [error |-> Null,
          conv |-> [Push(c, ToolResult(ToolUseIdOr(c, "playbook_rejected")))
                      EXCEPT !.acceptedPlaybook = c.pendingPlaybook,
                             !.pendingPlaybook = Null]]

\* rejectPlaybook (session), up to its agent call.
RejectPlaybookSession(c) ==
  IF NoPendingPlaybook(c)
    THEN [error |-> "no_pending", conv |-> c]
    ELSE [error |-> Null,
          conv |-> [Push(c, ToolResult(ToolUseIdOr(c, "playbook_rejected")))
                      EXCEPT !.pendingPlaybook = Null]]

\* refineToolBasedPlan, up to its agent call.
RefineToolBasedPlan(c) ==
  IF ~c.exists
    THEN [error |-> "no_conversation", conv |-> c]
    ELSE [error |-> Null, conv |-> Push(c, UserMessage("feedback"))]

\* The plan built from an output_plan call.
BuildPlan(c, input) ==
  [raw |-> input,
   playbook |-> IF c.acceptedPlaybook = Null THEN DefaultPlaybook
                ELSE c.acceptedPlaybook]

\* An optional field of a tool input: absent, or present with a value of
\* its schema type (all of them truthy).
Optional(S) == {<<>>} \cup {<<v>> : v \in S}

\* field || default
OrElse(field, default) == IF field = <<>> THEN default ELSE field[1]

HumanRoles == {"must_do", "must_verify"}
Levels == {"high", "medium", "low"}

\* The tasks of an output_plan input: identifiers in order of appearance;
\* each optional field absent or given (a dependency list naming task 1, or
\* naming a task 7 that no plan of the model has); a status the model sent
\* along.
RawTasks ==
  [id : 1..MaxTasks,
   humanRole : Optional({"must_do"}),
   risk : Optional({"high"}),
   complexity : Optional({"low"}),
   dependsOn : Optional({<<>>, <<1>>, <<7>>}),
   status : Optional({"done"})]

OutputPlanInputs ==
  UNION {{ts \in [1..n -> RawTasks] : \A i \in 1..n : ts[i].id = i} :
           n \in 0..MaxTasks}

\* A defaulting step that fills an omitted risk with low.
TaskWithLowRisk(task) ==
  [id |-> task.id,
   humanRole |-> OrElse(task.humanRole, "must_verify"),
   risk |-> OrElse(task.risk, "low"),
   complexity |-> OrElse(task.complexity, "medium"),
   dependsOn |-> OrElse(task.dependsOn, <<>>),
   status |-> "pending"]

\* A defaulting step that flips the status of a task that is pending.
TaskTogglesStatus(task) ==
  [id |-> task.id,
   humanRole |-> OrElse(task.humanRole, "must_verify"),
   risk |-> OrElse(task.risk, "medium"),
   complexity |-> OrElse(task.complexity, "medium"),
   dependsOn |-> OrElse(task.dependsOn, <<>>),
   status |-> IF task.status = <<"pending">> THEN "done" ELSE "pending"]

\* A defaulting step that drops the dependencies no task of the plan has.
TaskDropsUnknownDependencies(task) ==
  [id |-> task.id,
   humanRole |-> OrElse(task.humanRole, "must_verify"),
   risk |-> OrElse(task.risk, "medium"),
   complexity |-> OrElse(task.complexity, "medium"),
   dependsOn |-> SelectSeq(OrElse(task.dependsOn, <<>>),
                           LAMBDA d : d \in 1..MaxTasks),
   status |-> "pending"]

\* The callback of input.tasks.map in the output_plan branch.
TaskWithStatus(task) ==
  [id |-> task.id,
   humanRole |-> OrElse(task.humanRole, "must_verify"),
   risk |-> OrElse(task.risk, "medium"),
   complexity |-> OrElse(task.complexity, "medium"),
   dependsOn |-> OrElse(task.dependsOn, <<>>),
   status |-> "pending"]

\* tasksWithStatus
TasksWithStatus(tasks) == [i \in 1..Len(tasks) |-> TaskWithStatus(tasks[i])]

\* Assembled tasks read as the tasks of an output_plan input: every field
\* is present.
AsRawTasks(tasks) ==
  [i \in 1..Len(tasks) |->
     [id |-> tasks[i].id,
      humanRole |-> <<tasks[i].humanRole>>,
      risk |-> <<tasks[i].risk>>,
      complexity |-> <<tasks[i].complexity>>,
      dependsOn |-> <<tasks[i].dependsOn>>,
      status |-> <<tasks[i].status>>]]

\* The for-loop of runConversationLoop over response.content from block i on.
\* returned: the loop left the function with "return null".
RECURSIVE ProcessBlocks(_, _, _, _)
ProcessBlocks(c, content, i, plan) ==
  IF i > Len(content)
    THEN [conv |-> c, returned |-> FALSE, plan |-> plan]
  ELSE LET block == content[i] IN
    IF block.type = "text"
      THEN ProcessBlocks(c, content, i + 1, plan)
    ELSE IF block.name = ASK
      THEN [conv |-> [Push(c, AssistantMessage(content))
                        EXCEPT !.pendingQuestions = block.input,
                               !.lastToolUseId = block.id],
            returned |-> TRUE, plan |-> NoPlan]
    ELSE IF block.name = PROPOSE
      THEN [conv |-> [Push(c, AssistantMessage(content))
                        EXCEPT !.pendingPlaybook = block.input,
                               !.lastToolUseId = block.id],
            returned |-> TRUE, plan |-> NoPlan]
    ELSE IF block.name = OUTPUT
      THEN ProcessBlocks(c, content, i + 1, BuildPlan(c, block.input))
    ELSE ProcessBlocks(c, content, i + 1, plan)

\* The text-only test that makes runConversationLoop call itself again.
TextOnlyRetry(resp, plan) == resp.stop_reason = "end_turn" /\ plan = NoPlan

\* One pass of runConversationLoop after the agent answered with resp.
\* retry: the function calls itself, i.e. invokes the agent again.
RunConversationLoop(c, resp) ==
  LET r == ProcessBlocks(c, resp.content, 1, NoPlan) IN
    IF r.returned
      THEN [conv |-> r.conv, retry |-> FALSE, plan |-> NoPlan]
    ELSE IF TextOnlyRetry(resp, r.plan)
      THEN [conv |-> Push(Push(r.conv, AssistantMessage(resp.content)),
                          UserMessage("corrective")),
            retry |-> TRUE, plan |-> NoPlan]
    ELSE [conv |-> r.conv, retry |-> FALSE, plan |-> r.plan]

\* An event handed to the Orchestrator's event handler.
Event(type, questions, playbook, plan) ==
  [type |-> type, questions |-> questions, playbook |-> playbook,
   plan |-> plan]

\* The events runConversationLoop emits for a response, in the order of
\* its blocks, up to the block that makes it return.
RECURSIVE SessionEvents(_, _, _)
SessionEvents(c, content, i) ==
  IF i > Len(content) THEN <<>>
  ELSE IF content[i].type = "text"
    THEN <<Event("output", Null, Null, NoPlan)>>
           \o SessionEvents(c, content, i + 1)
  ELSE IF content[i].name = ASK
    THEN <<Event("questions", content[i].input, Null, NoPlan)>>
  ELSE IF content[i].name = PROPOSE
    THEN <<Event("playbook_proposed", Null, content[i].input, NoPlan)>>
  ELSE IF content[i].name = OUTPUT
    THEN <<Event("plan_ready", Null, Null, BuildPlan(c, content[i].input))>>
           \o SessionEvents(c, content, i + 1)
  ELSE SessionEvents(c, content, i + 1)

EventTypes(events) == [i \in 1..Len(events) |-> events[i].type]

----------------------------------------------------------------------------
(* orchestrator/state.ts: the workflow record *)

Phases == {"idle", "planning", "reviewing", "complete"}

createWorkflow ==
  [phase |-> "idle", requirement |-> Null, plan |-> NoPlan,
   implementation |-> Null, reviews |-> <<>>, iterations |-> 0]

startPlanning(state) ==
  [state EXCEPT !.phase = "planning", !.requirement = "requirement"]

completePlanning(state, plan) == [state EXCEPT !.plan = plan]

startReview(state) ==
  [state EXCEPT !.phase = "reviewing", !.implementation = "implementation"]

\* A completion that keeps the latest result only.
completeReviewReplaces(state, result) ==
  [state EXCEPT !.reviews = <<result>>]

completeReview(state, result) ==
  [state EXCEPT !.reviews = Append(@, result)]

completeWorkflow(state) == [state EXCEPT !.phase = "complete"]

\* An iteration start that counts the iteration twice.
startIterationTwice(state) ==
  [state EXCEPT !.phase = "planning", !.iterations = @ + 2]

startIteration(state) ==
  [state EXCEPT !.phase = "planning", !.iterations = @ + 1]

canTransitionTo(state, phase) ==
  CASE phase = "idle" -> FALSE
    [] phase = "planning" -> state.phase = "idle" \/ state.phase = "reviewing"
    [] phase = "reviewing" -> state.phase = "planning" /\ state.plan # NoPlan
    [] phase = "complete" -> state.phase = "reviewing"
    [] OTHER -> FALSE

(* sessions/reviewer.ts: the review result *)

\* A tier function whose upper threshold is exclusive.
getConfidenceLevelAbove(confidence) ==
  IF confidence > 90 THEN "high"
  ELSE IF confidence >= 70 THEN "medium"
  ELSE "low"

getConfidenceLevel(confidence) ==
  IF confidence >= 90 THEN "high"
  ELSE IF confidence >= 70 THEN "medium"
  ELSE "low"

RecommendedActions == {"approve", "request_changes", "iterate", "escalate"}

ReviewResult(confidence, action) ==
  [confidence |-> confidence, confidenceLevel |-> getConfidenceLevel(confidence),
   recommendedAction |-> action]

\* The digits after a "**Confidence Score:**" marker, as the regular
\* expression captures them.
ScoreDigits ==
  {<<0>>, <<5, 0>>, <<6, 9>>, <<7, 0>>, <<8, 9>>, <<9, 0>>, <<0, 9, 5>>,
   <<1, 0, 0>>, <<2, 5, 0>>}

\* parseInt(digits, 10)
RECURSIVE parseInt(_)
parseInt(digits) ==
  IF digits = <<>> THEN 0
  ELSE 10 * parseInt(SubSeq(digits, 1, Len(digits) - 1)) + digits[Len(digits)]

\* The word after a "**Recommendation:**" marker.
RecommendationWords ==
  {"APPROVE", "approve", "REQUEST_CHANGES", "request_changes", "ITERATE",
   "iterate", "ESCALATE", "escalate", "REJECT"}

toUpperCase(word) ==
  CASE word = "approve" -> "APPROVE"
    [] word = "request_changes" -> "REQUEST_CHANGES"
    [] word = "iterate" -> "ITERATE"
    [] word = "escalate" -> "ESCALATE"
    [] OTHER -> word

\* /(APPROVE|REQUEST_CHANGES|ITERATE|ESCALATE)/i
RecommendationMatches(word) ==
  toUpperCase(word) \in {"APPROVE", "REQUEST_CHANGES", "ITERATE", "ESCALATE"}

\* A review narrative: what follows each of its two markers, if present.
Narratives ==
  [confidence : Optional(ScoreDigits),
   recommendation : Optional(RecommendationWords)]

buildRecommendedAction(recommendation) ==
  CASE recommendation = "APPROVE" -> "approve"
    [] recommendation = "REQUEST_CHANGES" -> "request_changes"
    [] recommendation = "ITERATE" -> "iterate"
    [] recommendation = "ESCALATE" -> "escalate"
    [] OTHER -> "iterate"

\* What a plan's tasks hold in acceptanceCriteria, task by task. Plan
\* assembly spreads each task of the output_plan input and defaults
\* humanRole, risk, complexity, dependsOn and status only, so a task holds
\* the field exactly when the agent's call gave it: <<>> stands for a task
\* without the field, <<list>> for a task with that list.
CriterionLists == {<<>>, <<"criterion">>}
PlanCriteria ==
  UNION {[1..n -> Optional(CriterionLists)] : n \in 0..MaxTasks}

\* The tasks of the plan the explored output_plan call carries: one task
\* with one acceptance criterion.
acceptanceCriteria(plan) ==
  IF plan = NoPlan THEN <<>> ELSE <<(<<(<<"criterion">>)>>)>>

\* for (const criterion of task.acceptanceCriteria) on a task without the
\* field.
TypeError == "TypeError"

\* The result entries of the tasks from task t on.
RECURSIVE CriteriaResultsFrom(_, _)
CriteriaResultsFrom(criteria, t) ==
  IF t > Len(criteria) THEN <<>>
  ELSE [i \in 1..Len(criteria[t][1]) |->
          [taskId |-> t, criterion |-> criteria[t][1][i]]]
       \o CriteriaResultsFrom(criteria, t + 1)

\* parseCriteriaResults: one entry per criterion of every task, in task
\* order; iterating the criteria of a task that has none throws.
parseCriteriaResults(criteria) ==
  IF \E t \in DOMAIN criteria : criteria[t] = <<>>
    THEN [error |-> TypeError, results |-> <<>>]
    ELSE [error |-> Null, results |-> CriteriaResultsFrom(criteria, 1)]

\* parseReviewResult(response, plan): the confidence, the tier and the
\* recommended action of the result (its criteria results, issues and
\* summary are read by no decision), or the error parseCriteriaResults
\* throws, in which case there is no result.
parseReviewResult(narrative, criteria) ==
  LET confidence ==
        IF narrative.confidence = <<>> THEN 50
        ELSE parseInt(narrative.confidence[1])
      recommendationStr ==
        IF narrative.recommendation = <<>>
             \/ ~RecommendationMatches(narrative.recommendation[1])
          THEN "ITERATE"
          ELSE toUpperCase(narrative.recommendation[1])
      criteriaResults == parseCriteriaResults(criteria)
  IN IF criteriaResults.error # Null
       THEN [error |-> criteriaResults.error, review |-> ReviewResult(0, Null)]
       ELSE [error |-> Null,
             review |-> [confidence |-> confidence,
                         confidenceLevel |-> getConfidenceLevel(confidence),
                         recommendedAction |->
                           buildRecommendedAction(recommendationStr)]]

(* sessions/reviewer.ts: the stream of a review session *)

\* let fullResponse = ""
EmptyNarrative == [confidence |-> <<>>, recommendation |-> <<>>]

\* The text blocks explored: text whose recommendation marker is followed
\* by a word the expression does not accept, and text that holds both
\* markers with accepted values (a marker and its value are never split
\* between two blocks).
ReviewTexts ==
  {[confidence |-> <<>>, recommendation |-> <<"REJECT">>],
   [confidence |-> <<(<<0, 9, 5>>)>>, recommendation |-> <<"APPROVE">>]}

\* fullResponse += block.text: String.match returns the first place of the
\* concatenation where the whole expression matches, so a marker followed
\* by a word the expression does not accept is passed over for a later
\* marker that is. A narrative keeps, per marker, what decides the match:
\* the first captured digits, and the first accepted word if there is one,
\* else the first word.
AppendText(full, text) ==
  [confidence |-> IF full.confidence # <<>> THEN full.confidence
                  ELSE text.confidence,
   recommendation |->
     IF full.recommendation = <<>> THEN text.recommendation
     ELSE IF RecommendationMatches(full.recommendation[1])
       THEN full.recommendation
     ELSE IF text.recommendation # <<>>
               /\ RecommendationMatches(text.recommendation[1])
       THEN text.recommendation
     ELSE full.recommendation]

\* The text blocks of one stream event: none (an event that is no assistant
\* message, or an assistant message without text), one, or two.
StreamEvents ==
  {<<>>} \cup {<<t>> : t \in ReviewTexts}
         \cup {<<t, u>> : t, u \in ReviewTexts}

RECURSIVE AppendTexts(_, _)
AppendTexts(full, texts) ==
  IF texts = <<>> THEN full
  ELSE AppendTexts(AppendText(full, Head(texts)), Tail(texts))

\* The review results the explored streams yield.
ReviewResults ==
  {parseReviewResult(n, <<>>).review :
     n \in {EmptyNarrative} \cup ReviewTexts}

\* No session function has returned a value that waits for its caller.
NotReturning ==
  [stage |-> Null, plan |-> NoPlan, review |-> ReviewResult(0, Null)]

----------------------------------------------------------------------------
(* orchestrator/index.ts: configuration and routing *)

DEFAULT_CONFIG ==
  [maxIterations |-> maxIterations, autoApproveHighConfidence |-> FALSE]

\* The configurations explored: the constructor merges any override into
\* DEFAULT_CONFIG.
Configs ==
  [maxIterations : 1..maxIterations, autoApproveHighConfidence : BOOLEAN]

\* The review results handed to route(): every recommended action at
\* confidences on both sides of the tier thresholds.
RouteConfidences == {40, 69, 70, 89, 90, 95}
RouteResults ==
  {ReviewResult(c, a) : c \in RouteConfidences, a \in RecommendedActions}

\* A router without the iteration limit.
routeNoLimit(state, cfg, result) ==
  IF result.confidenceLevel = "high"
    THEN IF cfg.autoApproveHighConfidence THEN "approve" ELSE "human_review"
  ELSE IF result.confidenceLevel = "medium" THEN "human_review"
  ELSE IF result.recommendedAction = "escalate" THEN "escalate"
  ELSE "iterate"

\* A router that follows an approve recommendation at low confidence.
routeFollowsApprove(state, cfg, result) ==
  IF result.confidenceLevel = "high"
    THEN IF cfg.autoApproveHighConfidence THEN "approve" ELSE "human_review"
  ELSE IF result.confidenceLevel = "medium" THEN "human_review"
  ELSE IF state.iterations >= cfg.maxIterations THEN "escalate"
  ELSE IF result.recommendedAction = "escalate" THEN "escalate"
  ELSE IF result.recommendedAction = "approve" THEN "human_review"
  ELSE "iterate"

\* A router that applies the iteration limit before the tiers.
routeLimitFirst(state, cfg, result) ==
  IF state.iterations >= cfg.maxIterations THEN "escalate"
  ELSE IF result.confidenceLevel = "high"
    THEN IF cfg.autoApproveHighConfidence THEN "approve" ELSE "human_review"
  ELSE IF result.confidenceLevel = "medium" THEN "human_review"
  ELSE IF result.recommendedAction = "escalate" THEN "escalate"
  ELSE "iterate"

\* A router that also looks at the phase of the workflow.
routeByPhase(state, cfg, result) ==
  IF state.phase = "complete" THEN "approve"
  ELSE IF result.confidenceLevel = "high"
    THEN IF cfg.autoApproveHighConfidence THEN "approve" ELSE "human_review"
  ELSE IF result.confidenceLevel = "medium" THEN "human_review"
  ELSE IF state.iterations >= cfg.maxIterations THEN "escalate"
  ELSE IF result.recommendedAction = "escalate" THEN "escalate"
  ELSE "iterate"

\* Orchestrator.route: the action it returns.
route(state, cfg, result) ==
  IF result.confidenceLevel = "high"
    THEN IF cfg.autoApproveHighConfidence THEN "approve" ELSE "human_review"
  ELSE IF result.confidenceLevel = "medium" THEN "human_review"
  ELSE IF state.iterations >= cfg.maxIterations THEN "escalate"
  ELSE IF result.recommendedAction = "escalate" THEN "escalate"
  ELSE "iterate"

NoRoute ==
  [result |-> ReviewResult(0, Null), autoApprove |-> FALSE, iterations |-> 0,
   maxIterations |-> 0, action |-> Null]

----------------------------------------------------------------------------
(* orchestrator/index.ts: the Orchestrator's operations *)

ConvOps == {"plan", "answerQuestions", "acceptPlaybook", "rejectPlaybook",
            "refinePlan", "iterate"}
ResumeOps == {"answerQuestions", "acceptPlaybook", "rejectPlaybook"}

SnapshotOf(c, w) ==
  [messages |-> Len(c.messages),
   pendingQuestions |-> c.pendingQuestions,
   pendingPlaybook |-> c.pendingPlaybook,
   lastToolUseId |-> c.lastToolUseId,
   phase |-> w.phase, iterations |-> w.iterations]

Snapshot == SnapshotOf(conv, wf)

\* new Error(message): the message, and the values of the workflow the
\* error carries (interpolated into the message or set as fields).
Error(message, carries) == [message |-> message, carries |-> carries]

\* The error an operation throws for each outcome that is a throw of the
\* core's own.
ErrorThrown(op, outcome) ==
  CASE outcome = "no_pending" /\ op = "answerQuestions"
         -> Error("No pending questions to answer", {})
    [] outcome = "no_pending" /\ op = "acceptPlaybook"
         -> Error("No pending playbook to accept", {})
    [] outcome = "no_pending" /\ op = "rejectPlaybook"
         -> Error("No pending playbook to reject", {})
    [] outcome = "no_conversation"
         -> Error("No conversation state found", {})
    [] outcome = "no_plan" /\ op = "refinePlan"
         -> Error("No plan to refine. Call plan() first.", {})
    [] outcome = "no_plan" /\ op = "review"
         -> Error("No plan to review against. Call plan() first.", {})
    [] outcome = "max_iterations"
         -> Error("Max iterations (maxIterations) reached", {"maxIterations"})
    [] OTHER -> Error(Null, {})

FatalOutcomes == {"no_pending", "no_conversation", "no_plan", "max_iterations"}

\* The smallest positive number outside a finite set of numbers.
Fresh(used) == CHOOSE n \in 1..(Cardinality(used) + 1) : n \notin used

\* An identifier generator that hands out the same identifier every time.
sameUUID(used) == 1

\* randomUUID(): an identifier that differs from every identifier in use.
randomUUID(used) == Fresh(used)

\* n Orchestrators after construction: each holds a workflow with an
\* identifier of its own; the conversationStates map is empty.
InitOrchestrators(n) ==
  /\ orchs = [o \in 1..n |-> [id |-> randomUUID(1..(o - 1)),
                                state |-> createWorkflow]]
  /\ objects = <<>>
  /\ conversationStates = <<>>
  /\ calls = {}
  /\ issued = 0
  /\ lastStep = [o |-> 0, events |-> {}]

\* The store's createWorkflow: the entry of a new workflow.
NewEntry ==
  [exists |-> TRUE, phase |-> "idle", plan |-> NoPlan, lastReview |-> <<>>,
   pendingQuestions |-> Null, pendingPlaybook |-> Null]

InitEntry ==
  /\ entry = NewEntry
  /\ requests = 0
  /\ emitted = <<>>
  /\ returning = NotReturning
  /\ fullResponse = EmptyNarrative
  /\ streamed = 0

\* No pure function is being applied on its own.
InitPure == arg = Null /\ ret = Null

\* One Orchestrator after construction, and its store entry.
Constructed ==
  /\ InitOrchestrators(1)
  /\ InitEntry
  /\ conv = NoConversation
  /\ wf = createWorkflow
  /\ inflight = Null
  /\ agentCalls = 0
  /\ last = [op |-> Null, outcome |-> Null]
  /\ pre = SnapshotOf(NoConversation, createWorkflow)
  /\ lastRespHadCall = FALSE
  /\ config = DEFAULT_CONFIG
  /\ routed = NoRoute

Init == Constructed /\ InitPure

\* An operation that has reached its agent call.
Suspend(op) ==
  /\ inflight' = op
  /\ agentCalls' = 1
  /\ last' = [op |-> op, outcome |-> "running"]
  /\ pre' = Snapshot
  /\ emitted' = <<>>
  /\ UNCHANGED <<lastRespHadCall, returning, fullResponse, streamed, routed,
                 aux>>

\* An operation that ended (returned or threw) without calling the agent.
Finish(op, outcome) ==
  /\ inflight' = Null
  /\ agentCalls' = 0
  /\ last' = [op |-> op, outcome |-> outcome]
  /\ pre' = Snapshot
  /\ emitted' = <<>>
  /\ UNCHANGED <<lastRespHadCall, returning, fullResponse, streamed, routed,
                 aux>>

\* Orchestrator.plan, up to the agent call of runToolBasedPlanningSession.
Plan ==
  /\ inflight = Null
  /\ wf' = startPlanning(wf)
  /\ conv' = NewConversation
  /\ Suspend("plan")

\* The shared shape of answerQuestions / acceptPlaybook / rejectPlaybook:
\* the session function throws, or reaches its agent call.
Resume(op, r) ==
  /\ inflight = Null
  /\ IF r.error # Null
       THEN /\ conv' = r.conv
            /\ Finish(op, r.error)
       ELSE /\ Len(r.conv.messages) <= MaxMsgs
            /\ conv' = r.conv
            /\ Suspend(op)
  /\ UNCHANGED wf

\* Orchestrator.answerQuestions
AnswerQuestions == Resume("answerQuestions", ContinueWithAnswers(conv))

\* Orchestrator.acceptPlaybook
AcceptPlaybook == Resume("acceptPlaybook", AcceptPlaybookSession(conv))

\* Orchestrator.rejectPlaybook
RejectPlaybook == Resume("rejectPlaybook", RejectPlaybookSession(conv))

\* Orchestrator.refinePlan
RefinePlan ==
  /\ inflight = Null
  /\ UNCHANGED wf
  /\ IF wf.plan = NoPlan
       THEN /\ UNCHANGED conv
            /\ Finish("refinePlan", "no_plan")
       ELSE LET r == RefineToolBasedPlan(conv) IN
            IF r.error # Null
              THEN /\ conv' = r.conv
                   /\ Finish("refinePlan", r.error)
              ELSE /\ Len(r.conv.messages) <= MaxMsgs
                   /\ conv' = r.conv
                   /\ Suspend("refinePlan")

\* Orchestrator.iterate. With an empty review history buildIterationPrompt
\* dereferences undefined and throws after startIteration has been applied.
Iterate ==
  /\ inflight = Null
  /\ IF wf.iterations >= config.maxIterations
       THEN /\ UNCHANGED <<wf, conv>>
            /\ Finish("iterate", "max_iterations")
       ELSE /\ wf' = startIteration(wf)
            /\ IF wf.reviews = <<>>
                 THEN /\ UNCHANGED conv
                      /\ Finish("iterate", "type_error")
                 ELSE LET r == RefineToolBasedPlan(conv) IN
                      IF r.error # Null
                        THEN /\ conv' = r.conv
                             /\ Finish("iterate", r.error)
                        ELSE /\ Len(r.conv.messages) <= MaxMsgs
                             /\ conv' = r.conv
                             /\ Suspend("iterate")

\* The agent answers the call of a planning operation: the rest of
\* runConversationLoop, which hands its events to the event handler and
\* either calls the agent again or returns.
AgentRespond ==
  /\ inflight \in ConvOps
  /\ returning.stage = Null
  /\ \E resp \in AgentResponses(conv) :
       LET r == RunConversationLoop(conv, resp) IN
         /\ emitted' = EventTypes(SessionEvents(conv, resp.content, 1))
         /\ lastRespHadCall' =
              (\E i \in 1..Len(resp.content) :
                 resp.content[i].name \in {ASK, PROPOSE})
         /\ conv' = r.conv
         /\ IF r.retry
              THEN /\ agentCalls < MaxAgentCalls
                   /\ Len(r.conv.messages) <= MaxMsgs
                   /\ agentCalls' = agentCalls + 1
                   /\ UNCHANGED returning
              ELSE /\ Len(r.conv.messages) <= MaxMsgs
                   /\ returning' = [NotReturning EXCEPT !.stage = "session",
                                                        !.plan = r.plan]
                   /\ UNCHANGED agentCalls
  /\ UNCHANGED <<wf, inflight, last, pre, fullResponse, streamed, routed, aux>>

\* The Orchestrator method resumes with the value its session function
\* returned: plan() and the other planning operations record a plan,
\* review() appends the result to the history.
SessionReturns ==
  /\ inflight # Null
  /\ returning.stage = "session"
  /\ IF inflight = "review"
       THEN /\ wf' = completeReview(wf, returning.review)
            /\ last' = [last EXCEPT !.outcome = "reviewed"]
       ELSE /\ wf' = IF returning.plan # NoPlan
                       THEN completePlanning(wf, returning.plan)
                       ELSE wf
            /\ last' = [last EXCEPT !.outcome =
                          IF returning.plan # NoPlan THEN "plan"
                          ELSE "no_plan_yet"]
  /\ inflight' = Null
  /\ returning' = NotReturning
  /\ UNCHANGED <<conv, agentCalls, pre, lastRespHadCall, emitted, fullResponse,
                 streamed, routed, aux>>

\* The agent call of the suspended operation throws (transport error,
\* timeout, a stream that breaks): runConversationLoop emits an error event
\* and rethrows, runReviewSession has no catch and keeps what it has handed
\* over; the Orchestrator method rejects.
AgentFail ==
  /\ inflight # Null
  /\ returning.stage = Null
  /\ inflight' = Null
  /\ last' = [last EXCEPT !.outcome = "agent_error"]
  /\ emitted' = IF inflight \in ConvOps THEN <<"error">> ELSE emitted
  /\ fullResponse' = EmptyNarrative
  /\ streamed' = 0
  /\ UNCHANGED <<conv, wf, agentCalls, pre, lastRespHadCall, returning, routed,
                 aux>>

\* Orchestrator.review, up to the agent call of runReviewSession.
Review ==
  /\ inflight = Null
  /\ UNCHANGED conv
  /\ IF wf.plan = NoPlan
       THEN /\ UNCHANGED wf
            /\ Finish("review", "no_plan")
       ELSE /\ wf' = startReview(wf)
            /\ Suspend("review")

\* One "output" event per text block.
Outputs(texts) == [i \in 1..Len(texts) |-> "output"]

\* The review stream yields its next event: runReviewSession hands every
\* text block of it to the event handler and appends it to fullResponse.
ReviewStream ==
  /\ inflight = "review"
  /\ returning.stage = Null
  /\ streamed < MaxStream
  /\ \E texts \in StreamEvents :
       /\ emitted' = emitted \o Outputs(texts)
       /\ fullResponse' = AppendTexts(fullResponse, texts)
  /\ streamed' = streamed + 1
  /\ UNCHANGED <<conv, wf, inflight, agentCalls, last, pre, lastRespHadCall,
                 returning, routed, aux>>

\* The review stream ends: runReviewSession parses the narrative against
\* the plan review() read before the stream, hands review_ready to the
\* event handler and returns the result. When the parse throws, no event is
\* handed over and review() rejects.
ReviewRespond ==
  /\ inflight = "review"
  /\ returning.stage = Null
  /\ LET scored == parseReviewResult(fullResponse, acceptanceCriteria(wf.plan))
     IN IF scored.error # Null
          THEN /\ inflight' = Null
               /\ last' = [last EXCEPT !.outcome = scored.error]
               /\ UNCHANGED <<emitted, returning>>
          ELSE /\ returning' = [NotReturning EXCEPT !.stage = "session",
                                                    !.review = scored.review]
               /\ emitted' = Append(emitted, "review_ready")
               /\ UNCHANGED <<inflight, last>>
  /\ fullResponse' = EmptyNarrative
  /\ streamed' = 0
  /\ UNCHANGED <<conv, wf, agentCalls, pre, lastRespHadCall, routed, aux>>

\* Orchestrator.complete
Complete ==
  /\ inflight = Null
  /\ wf' = completeWorkflow(wf)
  /\ UNCHANGED conv
  /\ Finish("complete", "ok")

\* Orchestrator.reset
Reset ==
  /\ inflight = Null
  /\ conv' = NoConversation
  /\ wf' = createWorkflow
  /\ Finish("reset", "ok")

\* Orchestrator.route(result): synchronous; it reads the iteration counter
\* and the configuration and assigns nothing.
Route ==
  /\ inflight = Null
  /\ \E result \in RouteResults :
       routed' = [result |-> result,
                  autoApprove |-> config.autoApproveHighConfidence,
                  iterations |-> wf.iterations,
                  maxIterations |-> config.maxIterations,
                  action |-> route(wf, config, result)]
  /\ last' = [op |-> "route", outcome |-> "ok"]
  /\ UNCHANGED <<conv, wf, inflight, agentCalls, pre, lastRespHadCall, emitted,
                 returning, fullResponse, streamed, aux>>

\* Orchestrator.route called with the latest result of the review history,
\* as the caller of review() does.
RouteReviewed ==
  /\ inflight = Null
  /\ wf.reviews # <<>>
  /\ LET result == wf.reviews[Len(wf.reviews)] IN
       routed' = [result |-> result,
                  autoApprove |-> config.autoApproveHighConfidence,
                  iterations |-> wf.iterations,
                  maxIterations |-> config.maxIterations,
                  action |-> route(wf, config, result)]
  /\ last' = [op |-> "route", outcome |-> "ok"]
  /\ UNCHANGED <<conv, wf, inflight, agentCalls, pre, lastRespHadCall, emitted,
                 returning, fullResponse, streamed, aux>>

\* The planning conversation: every operation that reads or writes the
\* conversation state through the pending-call protocol.
NextConv ==
  \/ Plan
  \/ AnswerQuestions
  \/ AcceptPlaybook
  \/ RejectPlaybook
  \/ RefinePlan
  \/ AgentRespond
  \/ SessionReturns
  \/ AgentFail
  \/ Reset

\* The workflow lifecycle: every operation that changes the phase, the
\* review history or the iteration counter.
NextFlow ==
  \/ Plan
  \/ Iterate
  \/ Review /\ Len(wf.reviews) < MaxReviews
  \/ ReviewStream
  \/ ReviewRespond
  \/ Complete
  \/ Reset
  \/ AgentRespond
  \/ SessionReturns
  \/ AgentFail

\* The review history: every operation on one workflow that is planned,
\* reviewed more than once, routed, refined, iterated and completed.
NextHistory ==
  \/ Plan
  \/ RefinePlan /\ Len(conv'.messages) <= MaxHistoryMsgs
  \/ Iterate /\ Len(conv'.messages) <= MaxHistoryMsgs
  \/ Review /\ Len(wf.reviews) < MaxHistory
  \/ ReviewStream
  \/ ReviewRespond
  \/ RouteReviewed
  \/ Complete
  \/ AgentRespond /\ Len(conv'.messages) <= MaxHistoryMsgs
  \/ SessionReturns
  \/ AgentFail

\* The whole Orchestrator. Its state space is the product of the two
\* components above, which share Plan, Reset and the agent steps; the
\* properties below are checked under the component that holds their
\* operations.
Next == NextConv \/ NextFlow

\* Routing: an Orchestrator built with any of the configurations, at any
\* iteration count its iterate() admits, on which route() is called with
\* any review result, between resets and completions.
RouteReady ==
  /\ InitOrchestrators(1)
  /\ InitEntry
  /\ config \in Configs
  /\ \E i \in 0..config.maxIterations :
       wf = [createWorkflow EXCEPT !.iterations = i,
                                   !.phase = IF i = 0 THEN "idle" ELSE "planning"]
  /\ conv = NoConversation
  /\ inflight = Null
  /\ agentCalls = 0
  /\ last = [op |-> Null, outcome |-> Null]
  /\ pre = SnapshotOf(NoConversation, createWorkflow)
  /\ lastRespHadCall = FALSE
  /\ routed = NoRoute

InitRoute == RouteReady /\ InitPure

NextRoute ==
  \/ Route
  \/ Complete
  \/ Reset

SpecRoute == InitRoute /\ [][NextRoute]_vars

----------------------------------------------------------------------------
(* Callers that do not await *)

\* conversationStates.get(id)
StateOf(id) ==
  IF id \in DOMAIN conversationStates
    THEN objects[conversationStates[id]] ELSE NoConversation

\* The agent responses explored for callers that do not await: one
\* structured call, or text that ends the turn. Tool-use identifiers are
\* unique across the conversations and the suspended calls.
RaceShapes ==
  {<<TextBlock>>, <<ToolBlock(ASK, "[q1]")>>, <<ToolBlock(PROPOSE, "hotfix")>>,
   <<ToolBlock(OUTPUT, "rawPlan")>>}

RaceIdBase ==
  Max({0} \cup {IdBase(objects[n]) : n \in DOMAIN objects}
          \cup {c.answers[2] : c \in calls})

RaceResponses ==
  {[content |-> WithIds(s, RaceIdBase),
    stop_reason |-> IF HasToolUse(s) THEN "tool_use" ELSE "end_turn"] :
     s \in RaceShapes}

\* Every workflow identifier an Orchestrator, the map or a suspended call
\* holds.
IdsInUse ==
  {orchs[o].id : o \in DOMAIN orchs} \cup DOMAIN conversationStates
    \cup {c.id : c \in calls}

\* The events runConversationLoop emits for a response, in the order of
\* its blocks, up to the block that makes it return.
RECURSIVE EmittedFrom(_, _)
EmittedFrom(content, i) ==
  IF i > Len(content) THEN {}
  ELSE IF content[i].type = "text"
    THEN {"output"} \cup EmittedFrom(content, i + 1)
  ELSE IF content[i].name = ASK THEN {"questions"}
  ELSE IF content[i].name = PROPOSE THEN {"playbook_proposed"}
  ELSE IF content[i].name = OUTPUT
    THEN {"plan_ready"} \cup EmittedFrom(content, i + 1)
  ELSE EmittedFrom(content, i + 1)

\* Objects no map entry and no suspended call refers to are garbage. A
\* call holds object 0 when it holds none (a review, or a planning operation
\* whose session function has returned).
Collect(objs, map, cls) ==
  LET live == {map[id] : id \in DOMAIN map} \cup {c.obj : c \in cls} IN
    [n \in (DOMAIN objs) \cap live |-> objs[n]]

Put(f, k, v) == [x \in (DOMAIN f) \cup {k} |-> IF x = k THEN v ELSE f[x]]
Remove(f, k) == [x \in (DOMAIN f) \ {k} |-> f[x]]

\* An operation suspended on its agent call. A review keeps the acceptance
\* criteria of the plan it read from this.state before the state
\* transition.
Call(o, op, obj, answers) ==
  [k |-> Fresh({c.k : c \in calls}), o |-> o, op |-> op, id |-> orchs[o].id, obj |-> obj,
   n |-> 1, answers |-> answers, ret |-> NotReturning, full |-> EmptyNarrative,
   streamed |-> 0,
   criteria |-> IF op = "review" THEN acceptanceCriteria(orchs[o].state.plan)
                ELSE <<>>]

\* A step of Orchestrator o and the events it hands to the event handler.
Step(o, events) ==
  /\ lastStep' = [o |-> o, events |-> events]
  /\ UNCHANGED <<serialVars, routed, config, storeVars, pureVars>>

\* An operation that throws before it changes anything: its guard throws
\* before any event is handed over.
Rejected(o) ==
  /\ Step(o, {})
  /\ UNCHANGED <<orchs, objects, conversationStates, calls, issued>>

\* An operation on an existing ConversationState object that reaches its
\* agent call: the object as the session function left it.
Issue(o, op, c, answers) ==
  /\ issued < MaxOps
  /\ Cardinality(calls) < MaxCalls
  /\ Len(c.messages) <= MaxMsgs
  /\ LET obj == conversationStates[orchs[o].id] IN
       /\ objects' = [objects EXCEPT ![obj] = c]
       /\ calls' = calls \cup {Call(o, op, obj, answers)}
  /\ issued' = issued + 1
  /\ Step(o, {})
  /\ UNCHANGED <<orchs, conversationStates>>

\* Orchestrator.plan on Orchestrator o, up to the agent call: a fresh
\* ConversationState object replaces the map entry of the workflow.
PlanOn(o) ==
  /\ issued < MaxOps
  /\ Cardinality(calls) < MaxCalls
  /\ orchs' = [orchs EXCEPT ![o].state = startPlanning(@)]
  /\ LET obj == Fresh(DOMAIN objects)
         map == Put(conversationStates, orchs[o].id, obj)
         cls == calls \cup {Call(o, "plan", obj, NoId)}
     IN /\ conversationStates' = map
        /\ calls' = cls
        /\ objects' = Collect(Put(objects, obj, NewConversation), map, cls)
  /\ issued' = issued + 1
  /\ Step(o, {})

\* The shared shape of the resume operations on Orchestrator o.
ResumeOn(o, op, r) ==
  IF r.error # Null THEN Rejected(o)
  ELSE Issue(o, op, r.conv, r.conv.messages[Len(r.conv.messages)].tool_use_id)

AnswerQuestionsOn(o) ==
  ResumeOn(o, "answerQuestions", ContinueWithAnswers(StateOf(orchs[o].id)))

AcceptPlaybookOn(o) ==
  ResumeOn(o, "acceptPlaybook", AcceptPlaybookSession(StateOf(orchs[o].id)))

RejectPlaybookOn(o) ==
  ResumeOn(o, "rejectPlaybook", RejectPlaybookSession(StateOf(orchs[o].id)))

\* Orchestrator.refinePlan on Orchestrator o.
RefinePlanOn(o) ==
  LET r == RefineToolBasedPlan(StateOf(orchs[o].id)) IN
    IF orchs[o].state.plan = NoPlan \/ r.error # Null THEN Rejected(o)
    ELSE Issue(o, "refinePlan", r.conv, NoId)

\* Orchestrator.reset on Orchestrator o: the map entry of the workflow is
\* deleted and a workflow with a new identifier takes its place. Suspended
\* calls are not touched.
ResetOn(o) ==
  /\ issued < MaxOps
  /\ LET map == Remove(conversationStates, orchs[o].id) IN
       /\ conversationStates' = map
       /\ objects' = Collect(objects, map, calls)
  /\ orchs' = [orchs EXCEPT
                ![o] = [id |-> randomUUID(IdsInUse),
                        state |-> createWorkflow]]
  /\ issued' = issued + 1
  /\ Step(o, {})
  /\ UNCHANGED calls

\* Orchestrator.iterate on Orchestrator o: startIteration is applied, then
\* buildIterationPrompt throws on an empty review history, or
\* refineToolBasedPlan throws without a conversation state, or the
\* operation reaches its agent call.
IterateOn(o) ==
  LET st == orchs[o].state
      r == RefineToolBasedPlan(StateOf(orchs[o].id))
  IN IF st.iterations >= config.maxIterations THEN Rejected(o)
     ELSE /\ issued < MaxOps
          /\ issued' = issued + 1
          /\ orchs' = [orchs EXCEPT ![o].state = startIteration(@)]
          /\ Step(o, {})
          /\ UNCHANGED conversationStates
          /\ IF st.reviews = <<>> \/ r.error # Null
               THEN UNCHANGED <<objects, calls>>
               ELSE /\ Len(r.conv.messages) <= MaxMsgs
                    /\ Cardinality(calls) < MaxCalls
                    /\ LET obj == conversationStates[orchs[o].id] IN
                         /\ objects' = [objects EXCEPT ![obj] = r.conv]
                         /\ calls' = calls \cup {Call(o, "iterate", obj, NoId)}

\* Orchestrator.review on Orchestrator o, up to the stream of
\* runReviewSession.
ReviewOn(o) ==
  IF orchs[o].state.plan = NoPlan THEN Rejected(o)
  ELSE /\ issued < MaxOps
       /\ Cardinality(calls) < MaxCalls
       /\ Len(orchs[o].state.reviews)
            + Cardinality({c \in calls : c.o = o /\ c.op = "review"}) < MaxReviews
       /\ issued' = issued + 1
       /\ orchs' = [orchs EXCEPT ![o].state = startReview(@)]
       /\ calls' = calls \cup {Call(o, "review", 0, NoId)}
       /\ Step(o, {})
       /\ UNCHANGED <<objects, conversationStates>>

\* Orchestrator.complete on Orchestrator o.
CompleteOn(o) ==
  /\ issued < MaxOps
  /\ issued' = issued + 1
  /\ orchs' = [orchs EXCEPT ![o].state = completeWorkflow(@)]
  /\ Step(o, {})
  /\ UNCHANGED <<objects, conversationStates, calls>>

\* The agent answers the suspended call c: runConversationLoop goes on with
\* the object it fetched before the call and returns, or, after a text-only
\* answer, calls itself, which fetches the map entry of the call's workflow
\* identifier again and throws, before its try block, when there is none.
RespondTo(c) ==
  /\ c.op # "review"
  /\ c.ret.stage = Null
  /\ \E resp \in RaceResponses :
       LET r == RunConversationLoop(objects[c.obj], resp)
           objs == [objects EXCEPT ![c.obj] = r.conv]
           again == r.retry /\ c.id \in DOMAIN conversationStates
           cls == IF again
                    THEN (calls \ {c}) \cup
                           {[c EXCEPT !.obj = conversationStates[c.id],
                                      !.n = @ + 1]}
                  ELSE IF r.retry THEN calls \ {c}
                  ELSE (calls \ {c}) \cup
                         {[c EXCEPT !.obj = 0,
                                    !.ret = [NotReturning EXCEPT
                                               !.stage = "session",
                                               !.plan = r.plan]]}
       IN /\ Len(r.conv.messages) <= MaxMsgs
          /\ again => (c.n < MaxAgentCalls /\ issued < MaxOps)
          /\ issued' = IF again THEN issued + 1 ELSE issued
          /\ calls' = cls
          /\ objects' = Collect(objs, conversationStates, cls)
          /\ Step(c.o, EmittedFrom(resp.content, 1))
          /\ UNCHANGED <<orchs, conversationStates>>

\* The review stream of the suspended call c yields its next event.
StreamTo(c) ==
  /\ c.op = "review"
  /\ c.ret.stage = Null
  /\ c.streamed < MaxStream
  /\ issued < MaxOps
  /\ issued' = issued + 1
  /\ \E texts \in StreamEvents :
       /\ calls' = (calls \ {c}) \cup
                     {[c EXCEPT !.full = AppendTexts(@, texts),
                                !.streamed = @ + 1]}
       /\ Step(c.o, IF texts = <<>> THEN {} ELSE {"output"})
  /\ UNCHANGED <<orchs, objects, conversationStates>>

\* The review stream of the suspended call c ends: runReviewSession parses
\* the narrative against the plan review() read when it started, hands over
\* review_ready and returns; when the parse throws, the call ends with
\* nothing handed over.
StreamEndsFor(c) ==
  /\ c.op = "review"
  /\ c.ret.stage = Null
  /\ LET scored == parseReviewResult(c.full, c.criteria)
     IN IF scored.error # Null
          THEN /\ calls' = calls \ {c}
               /\ Step(c.o, {})
          ELSE /\ calls' = (calls \ {c}) \cup
                             {[c EXCEPT !.ret = [NotReturning EXCEPT
                                                  !.stage = "session",
                                                  !.review = scored.review],
                                        !.full = EmptyNarrative,
                                        !.streamed = 0]}
               /\ Step(c.o, {"review_ready"})
  /\ UNCHANGED <<orchs, objects, conversationStates, issued>>

\* The Orchestrator method of call c resumes with the value its session
\* function returned and goes on with this.state as it is now.
ReturnTo(c) ==
  /\ c.ret.stage = "session"
  /\ orchs' = IF c.op = "review"
                THEN [orchs EXCEPT ![c.o].state = completeReview(@, c.ret.review)]
              ELSE IF c.ret.plan # NoPlan
                THEN [orchs EXCEPT ![c.o].state = completePlanning(@, c.ret.plan)]
              ELSE orchs
  /\ calls' = calls \ {c}
  /\ Step(c.o, {})
  /\ UNCHANGED <<objects, conversationStates, issued>>

\* The agent call of the suspended call c throws: runConversationLoop hands
\* over an error event, runReviewSession none.
FailOf(c) ==
  /\ c.ret.stage = Null
  /\ calls' = calls \ {c}
  /\ objects' = Collect(objects, conversationStates, calls \ {c})
  /\ Step(c.o, IF c.op = "review" THEN {} ELSE {"error"})
  /\ UNCHANGED <<orchs, conversationStates, issued>>

\* Callers that do not await: any operation at any time.
NextRace ==
  \/ \E o \in DOMAIN orchs : PlanOn(o)
  \/ \E o \in DOMAIN orchs : AnswerQuestionsOn(o)
  \/ \E o \in DOMAIN orchs : AcceptPlaybookOn(o)
  \/ \E o \in DOMAIN orchs : RejectPlaybookOn(o)
  \/ \E o \in DOMAIN orchs : RefinePlanOn(o)
  \/ \E o \in DOMAIN orchs : IterateOn(o)
  \/ \E o \in DOMAIN orchs : ReviewOn(o)
  \/ \E o \in DOMAIN orchs : CompleteOn(o)
  \/ \E o \in DOMAIN orchs : ResetOn(o)
  \/ \E c \in calls : RespondTo(c)
  \/ \E c \in calls : StreamTo(c)
  \/ \E c \in calls : StreamEndsFor(c)
  \/ \E c \in calls : ReturnTo(c)
  \/ \E c \in calls : FailOf(c)

\* No call of Orchestrator o is suspended: its caller has awaited them.
Awaited(o) == \A c \in calls : c.o # o

\* Several workflows, each with a caller that awaits its operations.
NextPair ==
  \/ \E o \in DOMAIN orchs :
       Awaited(o) /\ PlanOn(o) /\ issued' <= MaxPairOps
  \/ \E o \in DOMAIN orchs :
       Awaited(o) /\ AnswerQuestionsOn(o) /\ issued' <= MaxPairOps
  \/ \E o \in DOMAIN orchs :
       Awaited(o) /\ AcceptPlaybookOn(o) /\ issued' <= MaxPairOps
  \/ \E o \in DOMAIN orchs :
       Awaited(o) /\ RejectPlaybookOn(o) /\ issued' <= MaxPairOps
  \/ \E o \in DOMAIN orchs :
       Awaited(o) /\ RefinePlanOn(o) /\ issued' <= MaxPairOps
  \/ \E o \in DOMAIN orchs :
       Awaited(o) /\ IterateOn(o) /\ issued' <= MaxPairOps
  \/ \E o \in DOMAIN orchs :
       Awaited(o) /\ ReviewOn(o) /\ issued' <= MaxPairOps
  \/ \E o \in DOMAIN orchs :
       Awaited(o) /\ CompleteOn(o) /\ issued' <= MaxPairOps
  \/ \E o \in DOMAIN orchs :
       Awaited(o) /\ ResetOn(o) /\ issued' <= MaxPairOps
  \/ \E c \in calls : RespondTo(c) /\ issued' <= MaxPairOps
  \/ \E c \in calls : StreamTo(c) /\ issued' <= MaxPairOps
  \/ \E c \in calls : StreamEndsFor(c)
  \/ \E c \in calls : ReturnTo(c)
  \/ \E c \in calls : FailOf(c)

InitPair ==
  /\ InitOrchestrators(2)
  /\ InitEntry
  /\ InitPure
  /\ conv = NoConversation
  /\ wf = createWorkflow
  /\ inflight = Null
  /\ agentCalls = 0
  /\ last = [op |-> Null, outcome |-> Null]
  /\ pre = SnapshotOf(NoConversation, createWorkflow)
  /\ lastRespHadCall = FALSE
  /\ config = DEFAULT_CONFIG
  /\ routed = NoRoute

----------------------------------------------------------------------------
(* The transport layer: the workflow store and its routes.                  *)
(* A route handler starts the Orchestrator method and returns; the client   *)
(* modelled here issues the next request after the "done" notification,     *)
(* except for DELETE, which it may send at any time.                        *)

\* store.delete(id): what the getters find for a workflow that is gone.
DeletedEntry == [NewEntry EXCEPT !.exists = FALSE]

\* The fields of a review result the store keeps.
StoredReview(result) ==
  [confidence |-> result.confidence,
   confidenceLevel |-> result.confidenceLevel]

\* The event handler createWorkflow installs on the Orchestrator.
ForwardEvent(e, event) ==
  IF ~e.exists THEN e
  ELSE IF event.type = "plan_ready" THEN [e EXCEPT !.plan = event.plan]
  ELSE IF event.type = "questions"
    THEN [e EXCEPT !.pendingQuestions = event.questions]
  ELSE IF event.type = "playbook_proposed"
    THEN [e EXCEPT !.pendingPlaybook = event.playbook]
  ELSE e

RECURSIVE ForwardEvents(_, _)
ForwardEvents(e, events) ==
  IF events = <<>> THEN e
  ELSE ForwardEvents(ForwardEvent(e, Head(events)), Tail(events))

\* The same handler on a review_ready event.
ForwardReviewReady(e, result) ==
  IF ~e.exists THEN e ELSE [e EXCEPT !.lastReview = <<StoredReview(result)>>]

updatePhase(e, phase) == IF ~e.exists THEN e ELSE [e EXCEPT !.phase = phase]
updatePlan(e, plan) == IF ~e.exists THEN e ELSE [e EXCEPT !.plan = plan]
updateReview(e, result) ==
  IF ~e.exists THEN e ELSE [e EXCEPT !.lastReview = <<result>>]
clearPendingQuestions(e) ==
  IF ~e.exists THEN e ELSE [e EXCEPT !.pendingQuestions = Null]
clearPendingPlaybook(e) ==
  IF ~e.exists THEN e ELSE [e EXCEPT !.pendingPlaybook = Null]

\* !pendingQuestions || pendingQuestions.length === 0
NoStoredQuestions(e) == e.pendingQuestions \in {Null, "[]"}
\* !pendingPlaybook
NoStoredPlaybook(e) == e.pendingPlaybook = Null

\* The Orchestrator method a handler started has reached its agent call.
Started(op) ==
  /\ requests < MaxRequests
  /\ requests' = requests + 1
  /\ inflight' = op
  /\ agentCalls' = 1
  /\ last' = [op |-> op, outcome |-> "running"]
  /\ pre' = Snapshot
  /\ emitted' = <<>>
  /\ UNCHANGED <<lastRespHadCall, returning, fullResponse, streamed, routed,
                 config, raceVars, pureVars>>

\* The request ended without an agent call: the handler refused it, or the
\* Orchestrator method threw and the handler's catch reported the error.
Ended(op, outcome) ==
  /\ requests < MaxRequests
  /\ requests' = requests + 1
  /\ inflight' = Null
  /\ agentCalls' = 0
  /\ last' = [op |-> op, outcome |-> outcome]
  /\ pre' = Snapshot
  /\ emitted' = <<>>
  /\ UNCHANGED <<lastRespHadCall, returning, fullResponse, streamed, routed,
                 config, raceVars, pureVars>>

\* store.getOrchestrator(id) finds nothing: AppError.notFound.
NotFound(op) ==
  /\ UNCHANGED <<conv, wf, entry>>
  /\ Ended(op, "not_found")

\* DELETE /workflow/:id: the entry is removed; the Orchestrator, its
\* conversation state and a call it is suspended on are not touched.
DeleteWorkflowRoute ==
  IF inflight = Null
    THEN /\ UNCHANGED <<conv, wf>>
         /\ IF entry.exists
              THEN entry' = DeletedEntry /\ Ended("delete", "deleted")
              ELSE UNCHANGED entry /\ Ended("delete", "not_found")
    ELSE /\ entry.exists
         /\ requests < MaxRequests
         /\ requests' = requests + 1
         /\ entry' = DeletedEntry
         /\ UNCHANGED <<serialVars, routed, config, raceVars, pureVars>>

\* POST /workflow/:id/plan
StartPlanRoute ==
  /\ inflight = Null
  /\ IF ~entry.exists THEN NotFound("plan")
     ELSE /\ entry' = updatePhase(entry, "planning")
          /\ wf' = startPlanning(wf)
          /\ conv' = NewConversation
          /\ Started("plan")

\* POST /workflow/:id/plan/refine
RefinePlanRoute ==
  /\ inflight = Null
  /\ IF ~entry.exists THEN NotFound("refinePlan")
     ELSE /\ UNCHANGED wf
          /\ IF entry.plan = NoPlan
               THEN /\ UNCHANGED <<conv, entry>>
                    /\ Ended("refinePlan", "bad_request")
               ELSE /\ entry' = updatePhase(entry, "planning")
                    /\ IF wf.plan = NoPlan
                         THEN /\ UNCHANGED conv
                              /\ Ended("refinePlan", "no_plan")
                         ELSE LET r == RefineToolBasedPlan(conv) IN
                              IF r.error # Null
                                THEN /\ conv' = r.conv
                                     /\ Ended("refinePlan", r.error)
                                ELSE /\ Len(r.conv.messages) <= MaxMsgs
                                     /\ conv' = r.conv
                                     /\ Started("refinePlan")

\* The shared shape of the answer / accept / reject handlers: refuse when
\* the store holds nothing pending, else clear the store's slot and start
\* the Orchestrator method.
ResumeRoute(op, nothingStored, cleared, r) ==
  /\ inflight = Null
  /\ IF ~entry.exists THEN NotFound(op)
     ELSE /\ UNCHANGED wf
          /\ IF nothingStored
               THEN /\ UNCHANGED <<conv, entry>>
                    /\ Ended(op, "bad_request")
               ELSE /\ entry' = updatePhase(cleared, "planning")
                    /\ conv' = r.conv
                    /\ IF r.error # Null
                         THEN Ended(op, r.error)
                         ELSE /\ Len(r.conv.messages) <= MaxMsgs
                              /\ Started(op)

\* POST /workflow/:id/plan/answer
AnswerQuestionsRoute ==
  ResumeRoute("answerQuestions", NoStoredQuestions(entry),
              clearPendingQuestions(entry), ContinueWithAnswers(conv))

\* POST /workflow/:id/playbook/accept
AcceptPlaybookRoute ==
  ResumeRoute("acceptPlaybook", NoStoredPlaybook(entry),
              clearPendingPlaybook(entry), AcceptPlaybookSession(conv))

\* POST /workflow/:id/playbook/reject
RejectPlaybookRoute ==
  ResumeRoute("rejectPlaybook", NoStoredPlaybook(entry),
              clearPendingPlaybook(entry), RejectPlaybookSession(conv))

\* POST /workflow/:id/review
StartReviewRoute ==
  /\ inflight = Null
  /\ IF ~entry.exists THEN NotFound("review")
     ELSE /\ UNCHANGED conv
          /\ IF entry.plan = NoPlan
               THEN /\ UNCHANGED <<wf, entry>>
                    /\ Ended("review", "bad_request")
               ELSE /\ entry' = updatePhase(entry, "reviewing")
                    /\ IF wf.plan = NoPlan
                         THEN /\ UNCHANGED wf
                              /\ Ended("review", "no_plan")
                         ELSE /\ Len(wf.reviews) < MaxReviews
                              /\ wf' = startReview(wf)
                              /\ Started("review")

\* The agent answers the call of the method a handler started: the rest of
\* runConversationLoop with its events forwarded to the store.
RouteRespond ==
  /\ inflight \in ConvOps
  /\ returning.stage = Null
  /\ \E resp \in AgentResponses(conv) :
       LET r == RunConversationLoop(conv, resp)
           events == SessionEvents(conv, resp.content, 1)
           forwarded == ForwardEvents(entry, events)
       IN
         /\ emitted' = EventTypes(events)
         /\ lastRespHadCall' =
              (\E i \in 1..Len(resp.content) :
                 resp.content[i].name \in {ASK, PROPOSE})
         /\ conv' = r.conv
         /\ IF r.retry
              THEN /\ agentCalls < MaxAgentCalls
                   /\ Len(r.conv.messages) <= MaxMsgs
                   /\ agentCalls' = agentCalls + 1
                   /\ entry' = forwarded
                   /\ UNCHANGED returning
              ELSE /\ Len(r.conv.messages) <= MaxMsgs
                   /\ entry' = forwarded
                   /\ returning' = [NotReturning EXCEPT !.stage = "session",
                                                        !.plan = r.plan]
                   /\ UNCHANGED agentCalls
  /\ UNCHANGED <<wf, inflight, last, pre, fullResponse, streamed, routed,
                 config, raceVars, pureVars,
                 requests>>

\* The review stream ends: runReviewSession parses the narrative and hands
\* over review_ready, which the store's handler records, and returns. When
\* the parse throws, nothing is handed over and the handler's .catch
\* reports the error.
RouteReviewReady ==
  /\ inflight = "review"
  /\ returning.stage = Null
  /\ LET scored == parseReviewResult(fullResponse, acceptanceCriteria(wf.plan))
     IN IF scored.error # Null
          THEN /\ inflight' = Null
               /\ last' = [last EXCEPT !.outcome = scored.error]
               /\ UNCHANGED <<emitted, returning, entry>>
          ELSE /\ returning' = [NotReturning EXCEPT !.stage = "session",
                                                    !.review = scored.review]
               /\ entry' = ForwardReviewReady(entry, scored.review)
               /\ emitted' = Append(emitted, "review_ready")
               /\ UNCHANGED <<inflight, last>>
  /\ fullResponse' = EmptyNarrative
  /\ streamed' = 0
  /\ UNCHANGED <<conv, wf, agentCalls, pre, lastRespHadCall,
                 routed, config, raceVars, pureVars,
                 requests>>

\* The Orchestrator method resumes with the value the session function
\* returned, records it and returns it to the handler's promise chain.
RouteReturns ==
  /\ inflight # Null
  /\ returning.stage = "session"
  /\ wf' = IF inflight = "review" THEN completeReview(wf, returning.review)
           ELSE IF returning.plan # NoPlan
             THEN completePlanning(wf, returning.plan)
           ELSE wf
  /\ returning' = [returning EXCEPT !.stage = "method"]
  /\ UNCHANGED <<conv, entry, inflight, agentCalls, last, pre, lastRespHadCall,
                 emitted, fullResponse, streamed, routed, config, raceVars,
                 pureVars, requests>>

\* The handler's .then callback: the store records a returned plan or the
\* review result and notifies the client that the request is done.
RouteDone ==
  /\ inflight # Null
  /\ returning.stage = "method"
  /\ entry' = IF inflight = "review"
                THEN updateReview(entry, StoredReview(returning.review))
              ELSE IF returning.plan # NoPlan
                THEN updatePlan(entry, returning.plan)
              ELSE entry
  /\ inflight' = Null
  /\ last' = [last EXCEPT !.outcome =
                IF inflight = "review" THEN "reviewed"
                ELSE IF returning.plan # NoPlan THEN "plan" ELSE "no_plan_yet"]
  /\ returning' = NotReturning
  /\ UNCHANGED <<conv, wf, agentCalls, pre, lastRespHadCall, emitted,
                 fullResponse, streamed, routed, config, raceVars, pureVars,
                 requests>>

\* The agent call throws: runConversationLoop emits an error event and
\* rethrows (the review stream just throws), and the handler's .catch
\* reports the error.
RouteFail ==
  /\ inflight # Null
  /\ returning.stage = Null
  /\ inflight' = Null
  /\ last' = [last EXCEPT !.outcome = "agent_error"]
  /\ emitted' = IF inflight \in ConvOps THEN <<"error">> ELSE emitted
  /\ fullResponse' = EmptyNarrative
  /\ streamed' = 0
  /\ UNCHANGED <<conv, wf, entry, agentCalls, pre, lastRespHadCall, returning,
                 routed, config, raceVars, pureVars,
                 requests>>

NextStore ==
  \/ StartPlanRoute
  \/ RefinePlanRoute
  \/ AnswerQuestionsRoute
  \/ AcceptPlaybookRoute
  \/ RejectPlaybookRoute
  \/ StartReviewRoute
  \/ DeleteWorkflowRoute
  \/ RouteRespond
  \/ ReviewStream
  \/ RouteReviewReady
  \/ RouteReturns
  \/ RouteDone
  \/ RouteFail

SpecStore == Init /\ [][NextStore]_vars

----------------------------------------------------------------------------
(* Plan assembly on its own: the task defaulting of the output_plan branch  *)
(* applied to any list of raw tasks.                                        *)

NotAssembled ==
  [done |-> FALSE, again |-> FALSE, first |-> <<>>, tasks |-> <<>>]

InitAssemble ==
  /\ Constructed
  /\ arg \in OutputPlanInputs
  /\ ret = NotAssembled

Assemble ==
  /\ ~ret.done
  /\ ret' = [done |-> TRUE, again |-> FALSE,
             first |-> TasksWithStatus(arg), tasks |-> TasksWithStatus(arg)]
  /\ UNCHANGED <<serialVars, routed, config, raceVars, storeVars, arg>>

\* The defaulting step applied once more, to the tasks it produced.
Reassemble ==
  /\ ret.done
  /\ ~ret.again
  /\ ret' = [ret EXCEPT !.again = TRUE,
                        !.tasks = TasksWithStatus(AsRawTasks(ret.tasks))]
  /\ UNCHANGED <<serialVars, routed, config, raceVars, storeVars, arg>>

NextAssemble ==
  \/ Assemble
  \/ Reassemble

SpecAssemble == InitAssemble /\ [][NextAssemble]_vars

----------------------------------------------------------------------------
(* The scorer on its own: parseReviewResult applied to any narrative and    *)
(* any plan, and route() called with the result it returned.                *)

NotScored ==
  [done |-> FALSE, error |-> Null, review |-> ReviewResult(0, Null)]

InitScore ==
  /\ RouteReady
  /\ arg \in [response : Narratives, plan : PlanCriteria]
  /\ ret = NotScored

\* runReviewSession hands the narrative and the plan to parseReviewResult.
Score ==
  /\ ~ret.done
  /\ LET scored == parseReviewResult(arg.response, arg.plan)
     IN ret' = [done |-> TRUE, error |-> scored.error,
                review |-> scored.review]
  /\ UNCHANGED <<serialVars, routed, config, raceVars, storeVars, arg>>

\* Orchestrator.route called with the result the scorer returned.
RouteScored ==
  /\ ret.done
  /\ ret.error = Null
  /\ routed' = [result |-> ret.review,
                autoApprove |-> config.autoApproveHighConfidence,
                iterations |-> wf.iterations,
                maxIterations |-> config.maxIterations,
                action |-> route(wf, config, ret.review)]
  /\ last' = [op |-> "route", outcome |-> "ok"]
  /\ UNCHANGED <<conv, wf, inflight, agentCalls, pre, lastRespHadCall, emitted,
                 returning, fullResponse, streamed, aux>>

NextScore ==
  \/ Score
  \/ RouteScored

SpecScore == InitScore /\ [][NextScore]_vars

SpecRace == Init /\ [][NextRace]_vars
SpecPair == InitPair /\ [][NextPair]_vars

SpecConv == Init /\ [][NextConv]_vars
SpecFlow == Init /\ [][NextFlow]_vars
SpecHistory == Init /\ [][NextHistory]_vars
Spec == Init /\ [][Next]_vars

TypeOK ==
  /\ conv.exists \in BOOLEAN
  /\ Len(conv.messages) <= MaxMsgs
  /\ wf.phase \in Phases
  /\ wf.iterations \in 0..config.maxIterations
  /\ config \in Configs
  /\ Len(wf.reviews) <= MaxHistory
  /\ inflight \in ConvOps \cup {"review", Null}
  /\ agentCalls \in 0..MaxAgentCalls
  /\ returning.stage \in {Null, "session", "method"}
  /\ fullResponse \in Narratives
  /\ streamed \in 0..MaxStream
  /\ requests \in 0..MaxRequests
  /\ entry.phase \in Phases
  /\ Len(entry.lastReview) <= 1
  /\ ~entry.exists => entry = DeletedEntry
  /\ issued \in 0..MaxOps
  /\ \A c \in calls :
       /\ c.n \in 1..MaxAgentCalls
       /\ c.ret.stage \in {Null, "session"}
       /\ c.streamed \in 0..MaxStream
       /\ (c.op # "review" /\ c.ret.stage = Null) <=> c.obj \in DOMAIN objects
  /\ \A id \in DOMAIN conversationStates :
       conversationStates[id] \in DOMAIN objects

----------------------------------------------------------------------------
(* Properties of the planning conversation, checked under SpecConv *)

SlotFilled == conv.pendingQuestions # Null \/ conv.pendingPlaybook # Null

\* The operation in flight waits for its agent call (its session function
\* has not returned).
AtAgentCall == returning.stage = Null

Min(S) == CHOOSE x \in S : \A y \in S : x <= y

\* The first questions / playbook call of an assistant entry: the one the
\* loop of runConversationLoop acts on.
FirstCall(content) ==
  LET found == {i \in 1..Len(content) : content[i].name \in {ASK, PROPOSE}} IN
    IF found = {} THEN [type |-> "text", name |-> Null, id |-> NoId]
    ELSE content[Min(found)]

\* The identifier of the structured call that last filled the slot of the
\* given tool (ASK: pending questions, PROPOSE: pending playbook).
FillingCallId(msgs, tool) ==
  LET fills == {k \in 1..Len(msgs) :
                  /\ msgs[k].kind = "assistant"
                  /\ FirstCall(msgs[k].content).name = tool} IN
    IF fills = {} THEN NoId ELSE FirstCall(msgs[Max(fills)].content).id

SlotTool(op) == IF op = "answerQuestions" THEN ASK ELSE PROPOSE

\* C1: when the agent call of a resume operation fails, the pending
\* questions, the pending playbook and the last tool-use identifier are what
\* they were before the operation, so the same operation passes its pending
\* check again.
C1_FailedResumeKeepsPending ==
  (last.op \in ResumeOps /\ last.outcome = "agent_error") =>
    /\ conv.pendingQuestions = pre.pendingQuestions
    /\ conv.pendingPlaybook = pre.pendingPlaybook
    /\ conv.lastToolUseId = pre.lastToolUseId
    /\ (last.op = "answerQuestions" => conv.pendingQuestions # Null)
    /\ (last.op # "answerQuestions" => conv.pendingPlaybook # Null)

\* C2: pending questions and a pending playbook are never set together.
C2_AtMostOnePending ==
  ~(conv.pendingQuestions # Null /\ conv.pendingPlaybook # Null)

\* C3: after a completed conversation cycle a pending slot is filled exactly
\* when the last agent response held a questions or playbook call; no slot
\* is filled after a plan has been returned; the slot a resume operation
\* resolves is empty once the operation is under way.
C3_SlotMatchesLastResponse ==
  /\ (inflight = Null /\ last.op \in ConvOps
        /\ last.outcome \in {"plan", "no_plan_yet"})
       => (SlotFilled <=> lastRespHadCall)
  /\ (inflight = Null /\ last.op \in ConvOps /\ last.outcome = "plan")
       => ~SlotFilled
  /\ (inflight = "answerQuestions" /\ agentCalls = 1 /\ AtAgentCall)
       => conv.pendingQuestions = Null
  /\ (/\ inflight \in {"acceptPlaybook", "rejectPlaybook"}
      /\ agentCalls = 1
      /\ AtAgentCall)
       => conv.pendingPlaybook = Null

\* C4: a resume operation issued while its slot is empty (or while there is
\* no conversation state) throws "no pending ..." without an agent call and
\* leaves the conversation state and the workflow state as they were. The
\* state being unchanged, the same operation issued again meets the same
\* step.
C4_EmptySlotResumeRejected ==
  [][(/\ inflight = Null
      /\ last'.op \in ResumeOps
      /\ \/ ~conv.exists
         \/ (last'.op = "answerQuestions" /\ conv.pendingQuestions = Null)
         \/ (last'.op # "answerQuestions" /\ conv.pendingPlaybook = Null))
       => /\ last'.outcome = "no_pending"
          /\ inflight' = Null
          /\ agentCalls' = 0
          /\ conv' = conv
          /\ wf' = wf]_vars

\* A resume operation has just been refused on a live conversation whose
\* transcript already holds an agent turn.
C4_Witness ==
  /\ last.op \in ResumeOps
  /\ last.outcome = "no_pending"
  /\ conv.exists
  /\ Len(conv.messages) >= 2
  /\ wf.plan # NoPlan

\* C5: a resume operation that passes its pending check has, when it reaches
\* its agent call, appended exactly one entry: a tool result addressed to the
\* call that filled the slot it resolves, and that slot is cleared.
C5_ResumeAnswersFillingCall ==
  (inflight \in ResumeOps /\ agentCalls = 1 /\ AtAgentCall) =>
    LET m == conv.messages[Len(conv.messages)] IN
      /\ Len(conv.messages) = pre.messages + 1
      /\ m.kind = "tool_result"
      /\ m.tool_use_id = FillingCallId(conv.messages, SlotTool(inflight))
      /\ (inflight = "answerQuestions" => conv.pendingQuestions = Null)
      /\ (inflight # "answerQuestions" => conv.pendingPlaybook = Null)

\* C6: within one operation the agent is not invoked again and again for
\* text-only answers: the number of invocations stays below the largest
\* number the model explores.
C6_TextOnlyRetriesBounded == agentCalls < MaxAgentCalls

----------------------------------------------------------------------------
(* Properties of the workflow lifecycle, checked under SpecFlow *)

\* C7: when the agent call of plan(), review() or iterate() fails, the phase
\* and the iteration counter are what they were before the operation.
C7_FailedCallKeepsPhase ==
  (last.op \in {"plan", "review", "iterate"} /\ last.outcome = "agent_error") =>
    /\ wf.phase = pre.phase
    /\ wf.iterations = pre.iterations

\* C8: a workflow in phase reviewing or complete has a plan.
C8_PlanWhenReviewingOrComplete ==
  wf.phase \in {"reviewing", "complete"} => wf.plan # NoPlan

\* C9: the phase changes only along the transitions canTransitionTo allows
\* (idle to planning, planning to reviewing with a plan, reviewing to
\* planning, reviewing to complete), or back to idle by reset.
C9_LegalPhaseTransitions ==
  [][wf'.phase # wf.phase =>
       \/ (last'.op = "reset" /\ wf'.phase = "idle")
       \/ canTransitionTo(wf, wf'.phase)]_vars

\* C10: a workflow in phase complete has at least one review result.
C10_CompleteHasReview ==
  wf.phase = "complete" => Len(wf.reviews) > 0

\* C11: the iteration counter stays within 0..maxIterations; an iterate()
\* issued below the maximum raises the counter by exactly one and sets the
\* phase to planning; an iterate() issued at the maximum throws without an
\* agent call and leaves the workflow state and the conversation as they
\* were.
C11_IterationsBounded ==
  [][/\ wf.iterations \in 0..config.maxIterations
     /\ wf'.iterations \in 0..config.maxIterations
     /\ (inflight = Null /\ last'.op = "iterate") =>
          IF wf.iterations = config.maxIterations
            THEN /\ last'.outcome = "max_iterations"
                 /\ inflight' = Null
                 /\ agentCalls' = 0
                 /\ wf' = wf
                 /\ conv' = conv
            ELSE /\ wf'.iterations = wf.iterations + 1
                 /\ wf'.phase = "planning"
                 /\ last'.outcome # "max_iterations"]_vars

\* iterate() has just been refused at the maximum, after an iteration that
\* followed a review and reached the agent.
C11_Witness ==
  /\ last.op = "iterate"
  /\ last.outcome = "max_iterations"
  /\ wf.iterations = config.maxIterations
  /\ Len(wf.reviews) > 0
  /\ Len(conv.messages) >= 2

----------------------------------------------------------------------------
(* Properties of the router, checked under SpecRoute *)

Routed == routed.action # Null

\* What the router's decision is said to depend on.
RouteInputs(r) ==
  <<r.result.confidenceLevel, r.autoApprove, r.iterations, r.maxIterations,
    r.result.recommendedAction>>

\* C12: for a review result whose recommended action is escalate, route()
\* returns escalate, at every tier, auto-approve setting and iteration
\* count.
C12_EscalateRecommendationEscalates ==
  (Routed /\ routed.result.recommendedAction = "escalate")
    => routed.action = "escalate"

\* C13: for a review result of tier low, when the iteration counter has
\* reached maxIterations, route() returns escalate whatever the recommended
\* action and the auto-approve setting.
C13_LowExhaustedEscalates ==
  (/\ Routed
   /\ routed.result.confidenceLevel = "low"
   /\ routed.iterations >= routed.maxIterations)
    => routed.action = "escalate"

\* route() was called at the iteration limit with a low-tier result that
\* recommends approval, auto-approve being enabled.
C13_Witness ==
  /\ Routed
  /\ routed.result.confidenceLevel = "low"
  /\ routed.iterations = routed.maxIterations
  /\ routed.result.recommendedAction = "approve"
  /\ routed.autoApprove
  /\ routed.action = "escalate"

\* C14: for a review result of tier low whose recommended action is not
\* escalate, with iterations remaining, route() returns iterate.
C14_LowRemainingIterates ==
  (/\ Routed
   /\ routed.result.confidenceLevel = "low"
   /\ routed.result.recommendedAction # "escalate"
   /\ routed.iterations < routed.maxIterations)
    => routed.action = "iterate"

\* route() was called one iteration short of the limit with a low-tier
\* result that recommends approval.
C14_Witness ==
  /\ Routed
  /\ routed.result.confidenceLevel = "low"
  /\ routed.result.recommendedAction = "approve"
  /\ routed.iterations > 0
  /\ routed.iterations + 1 = routed.maxIterations
  /\ routed.action = "iterate"

\* C15: for a review result whose recommended action is not escalate, tier
\* high gives approve when auto-approve is enabled and human review
\* otherwise, tier medium gives human review, at every iteration count and
\* every maxIterations.
C15_HighAndMediumTiers ==
  (Routed /\ routed.result.recommendedAction # "escalate") =>
    /\ routed.result.confidenceLevel = "high" =>
         routed.action = IF routed.autoApprove THEN "approve" ELSE "human_review"
    /\ routed.result.confidenceLevel = "medium" =>
         routed.action = "human_review"

\* route() was called at the iteration limit with a high-tier result, auto-
\* approve being enabled, and approved.
C15_Witness ==
  /\ Routed
  /\ routed.result.confidenceLevel = "high"
  /\ routed.result.recommendedAction = "iterate"
  /\ routed.autoApprove
  /\ routed.iterations = routed.maxIterations
  /\ routed.action = "approve"

\* C16: a route() call leaves the workflow state, the conversation state
\* and the configuration as they were, and returns the action the previous
\* call returned whenever the tier, the auto-approve flag, the iteration
\* count, maxIterations and the recommended action are those of the
\* previous call.
C16_RouteIsPure ==
  [][(inflight = Null /\ last'.op = "route") =>
       /\ wf' = wf
       /\ conv' = conv
       /\ config' = config
       /\ (Routed /\ RouteInputs(routed') = RouteInputs(routed))
            => routed'.action = routed.action]_vars

\* route() was called on a completed workflow with iterations behind it.
C16_Witness ==
  /\ Routed
  /\ last.op = "route"
  /\ wf.phase = "complete"
  /\ routed.iterations > 0
  /\ routed.result.confidenceLevel = "low"

----------------------------------------------------------------------------
(* Properties of callers that do not await, checked under SpecRace *)

CallsOf(o) == {c \in calls : c.o = o}

ContentEvents == {"questions", "playbook_proposed", "plan_ready"}

\* C17: two resume operations suspended together on one conversation never
\* both answer the same pending call: the tool results they appended carry
\* different tool-use identifiers.
C17_ResumesAnswerDistinctCalls ==
  \A c1, c2 \in calls :
    (/\ c1 # c2
     /\ c1.op \in ResumeOps /\ c1.ret.stage = Null
     /\ c2.op \in ResumeOps /\ c2.ret.stage = Null
     /\ c1.obj = c2.obj)
      => c1.answers # c2.answers

\* C18: at most one agent call per workflow is suspended at any time.
C18_OneCallPerWorkflow ==
  \A c1, c2 \in calls :
    (c1.ret.stage = Null /\ c2.ret.stage = Null /\ c1.id = c2.id) => c1 = c2

\* C19: when the response (or failure) of a call arrives whose workflow has
\* been discarded by reset(), no questions, playbook_proposed or plan_ready
\* event is emitted, no conversation state of the map changes and no
\* workflow state changes.
C19_DiscardedResponseIgnored ==
  [][\A c \in calls \ calls' :
       c.id # orchs[c.o].id =>
         /\ lastStep'.events \cap ContentEvents = {}
         /\ orchs' = orchs
         /\ conversationStates' = conversationStates
         /\ \A id \in DOMAIN conversationStates : StateOf(id)' = StateOf(id)]_vars

----------------------------------------------------------------------------
(* Properties of several workflows, checked under SpecPair *)

\* C20: a step of one Orchestrator (an operation, or the response or
\* failure of one of its calls) leaves every other Orchestrator's workflow
\* state, conversation state (transcript, pending slots, accepted
\* playbook), suspended calls and the objects they hold as they were.
C20_WorkflowsIndependent ==
  [][\A b \in DOMAIN orchs :
       b # lastStep'.o =>
         /\ orchs'[b] = orchs[b]
         /\ StateOf(orchs[b].id)' = StateOf(orchs[b].id)
         /\ CallsOf(b)' = CallsOf(b)
         /\ \A c \in CallsOf(b) :
              c.obj \in DOMAIN objects => objects'[c.obj] = objects[c.obj]]_vars

\* Orchestrator 1 has just answered its pending questions while a call of
\* Orchestrator 2 is suspended.
C20_Witness ==
  /\ lastStep.o = 1
  /\ \E c \in CallsOf(1) : c.op = "answerQuestions"
  /\ CallsOf(2) # {}
  /\ orchs[1].id # orchs[2].id

----------------------------------------------------------------------------
(* Properties of the transport store and of the events, checked under      *)
(* SpecStore (C21) and SpecConv (C22) *)

\* C21: after every completed operation on a workflow the store holds, the
\* store holds pending questions (a pending playbook) if and only if the
\* engine's conversation state does, and they are the same ones.
C21_StorePendingMatchesEngine ==
  (inflight = Null /\ entry.exists) =>
    /\ entry.pendingQuestions = conv.pendingQuestions
    /\ entry.pendingPlaybook = conv.pendingPlaybook

\* C22: a plan_ready event is never emitted while questions or a playbook
\* proposal of the conversation are still unresolved: a response that makes
\* the engine emit plan_ready arrives with both pending slots empty.
C22_PlanReadyAfterResolution ==
  [][(/\ inflight \in ConvOps
      /\ AtAgentCall
      /\ \E i \in 1..Len(emitted') : emitted'[i] = "plan_ready")
       => ~SlotFilled]_vars

----------------------------------------------------------------------------
(* Properties of plan assembly and of the outcome of planning operations,   *)
(* checked under SpecConv *)

\* An operation of the given name passed its guards and reached its agent
\* call in this step.
Reaches(op) ==
  inflight = Null /\ last'.op = op /\ last'.outcome = "running"

\* The suspended planning operation returns a plan in this step.
ReturnsPlan ==
  inflight \in ConvOps /\ inflight' = Null /\ last'.outcome = "plan"

\* C23: the plan an output_plan call yields carries the playbook most
\* recently accepted through acceptPlaybook in the current conversation,
\* and the generic fallback playbook when none was accepted. The accepted
\* playbook is set to the pending proposal by an acceptPlaybook that passes
\* its guard, is empty in a new conversation, and is left alone by every
\* other step (rejectPlaybook included), so a rejected proposal is never
\* attached.
C23_PlanCarriesAcceptedPlaybook ==
  [][/\ Reaches("acceptPlaybook")
          => conv'.acceptedPlaybook = conv.pendingPlaybook
     /\ (Reaches("plan") \/ (inflight = Null /\ last'.op = "reset"))
          => conv'.acceptedPlaybook = Null
     /\ ~(\/ Reaches("acceptPlaybook")
          \/ Reaches("plan")
          \/ (inflight = Null /\ last'.op = "reset"))
          => conv'.acceptedPlaybook = conv.acceptedPlaybook
     /\ ReturnsPlan
          => wf'.plan.playbook =
               IF conv.acceptedPlaybook = Null THEN DefaultPlaybook
               ELSE conv.acceptedPlaybook]_vars

\* A plan carrying an accepted playbook was returned after a later proposal
\* had been rejected.
C23_Witness ==
  /\ last.op = "rejectPlaybook"
  /\ last.outcome = "plan"
  /\ wf.plan.playbook \in Playbooks

----------------------------------------------------------------------------
(* Properties of plan assembly, checked under SpecAssemble *)

\* C24: plan assembly fills every omitted optional task field with its
\* default and keeps what the model gave: the human role is the given one
\* or else must_verify, risk and complexity are the given ones or else
\* medium, the dependency list is the given one or else empty, the status
\* is pending, and the tasks keep the order of the raw output.
C24_AssemblyFillsDefaults ==
  ret.done =>
    /\ Len(ret.tasks) = Len(arg)
    /\ \A i \in 1..Len(arg) :
         LET raw == arg[i]
             task == ret.tasks[i]
         IN /\ task.id = raw.id
            /\ task.humanRole =
                 (IF raw.humanRole = <<>> THEN "must_verify"
                  ELSE raw.humanRole[1])
            /\ task.risk = (IF raw.risk = <<>> THEN "medium" ELSE raw.risk[1])
            /\ task.complexity =
                 (IF raw.complexity = <<>> THEN "medium"
                  ELSE raw.complexity[1])
            /\ task.dependsOn =
                 (IF raw.dependsOn = <<>> THEN <<>> ELSE raw.dependsOn[1])
            /\ task.status = "pending"

\* Two tasks were assembled: one with every optional field omitted, one
\* with every optional field (and a status) given.
C24_Witness ==
  /\ ret.done
  /\ Len(arg) = 2
  /\ arg[1].humanRole = <<>> /\ arg[1].risk = <<>>
  /\ arg[1].complexity = <<>> /\ arg[1].dependsOn = <<>>
  /\ arg[2].humanRole # <<>> /\ arg[2].risk # <<>>
  /\ arg[2].complexity # <<>> /\ arg[2].dependsOn = <<(<<1>>)>>
  /\ arg[2].status # <<>>

----------------------------------------------------------------------------
(* Properties of the scorer, checked under SpecScore *)

\* C25: scoring a narrative without a confidence marker and without a
\* recommendation marker never raises, whatever the plan: it yields
\* confidence 50, tier low, recommended action iterate, and routing that
\* result yields iterate or escalate, never approve.
C25_UnmarkedNarrativeIsConservative ==
  (ret.done /\ arg.response = EmptyNarrative) =>
    /\ ret.error = Null
    /\ ret.review.confidence = 50
    /\ ret.review.confidenceLevel = "low"
    /\ ret.review.recommendedAction = "iterate"
    /\ routed.action # Null => routed.action \in {"iterate", "escalate"}

\* C26: the tier of every review result the scorer produces is a function
\* of its confidence: high exactly when confidence >= 90, medium exactly
\* when 70 <= confidence < 90, low otherwise; and route() decides on that
\* tier (high: approve or human review, medium: human review, low: iterate
\* or escalate).
C26_TierFollowsConfidence ==
  (ret.done /\ ret.error = Null) =>
    LET confidence == ret.review.confidence
        tier == ret.review.confidenceLevel
    IN /\ (tier = "high") <=> (confidence >= 90)
       /\ (tier = "medium") <=> (70 <= confidence /\ confidence < 90)
       /\ (tier = "low") <=> (confidence < 70)
       /\ routed.action # Null =>
            /\ confidence >= 90 =>
                 routed.action \in {"approve", "human_review"}
            /\ (70 <= confidence /\ confidence < 90) =>
                 routed.action = "human_review"
            /\ confidence < 70 => routed.action \in {"iterate", "escalate"}

\* A result scored exactly at the upper threshold was routed as high.
C26_Witness ==
  /\ ret.done
  /\ ret.error = Null
  /\ Len(arg.plan) = MaxTasks
  /\ ret.review.confidence = 90
  /\ ret.review.confidenceLevel = "high"
  /\ routed.action = "approve"

----------------------------------------------------------------------------
(* The end-to-end scenario and the outcome of planning operations, checked  *)
(* under SpecConv *)

\* The transcript of a conversation that went: requirement, clarification
\* call, answers (n = 3), proposal, acceptance (n = 5).
ScenarioTranscript(msgs, n) ==
  /\ Len(msgs) = n
  /\ msgs[1].kind = "requirement"
  /\ msgs[2].kind = "assistant" /\ FirstCall(msgs[2].content).name = ASK
  /\ msgs[3].kind = "tool_result"
  /\ n = 5 => /\ msgs[4].kind = "assistant"
              /\ FirstCall(msgs[4].content).name = PROPOSE
              /\ msgs[5].kind = "tool_result"

\* C27: end to end. When the agent answers the requirement with a
\* clarification call, plan() returns no plan with at least one question
\* pending; when it answers the answers with a playbook proposal,
\* answerQuestions() returns no plan with the proposed playbook pending;
\* when it answers the acceptance with an output_plan call,
\* acceptPlaybook() returns a plan with at least one task that carries the
\* accepted playbook, both pending slots are empty and the plan is stored in
\* the workflow.
C27_EndToEnd ==
  [][/\ (/\ inflight = "plan"
         /\ agentCalls = 1
         /\ inflight' = Null
         /\ emitted' = <<"questions">>)
          => /\ last'.outcome = "no_plan_yet"
             /\ conv'.pendingQuestions \in QuestionLists \ {"[]"}
             /\ conv'.pendingPlaybook = Null
             /\ wf'.plan = wf.plan
     /\ (/\ inflight = "answerQuestions"
         /\ inflight' = Null
         /\ Len(conv'.messages) = 4
         /\ ScenarioTranscript(SubSeq(conv'.messages, 1, 3), 3)
         /\ emitted' = <<"playbook_proposed">>)
          => /\ last'.outcome = "no_plan_yet"
             /\ conv'.pendingPlaybook \in Playbooks
             /\ conv'.pendingQuestions = Null
             /\ wf'.plan = wf.plan
     /\ (/\ inflight = "acceptPlaybook"
         /\ inflight' = Null
         /\ ScenarioTranscript(conv'.messages, 5)
         /\ emitted' = <<"plan_ready">>)
          => /\ last'.outcome = "plan"
             /\ pre.pendingPlaybook \in Playbooks
             /\ wf'.plan # NoPlan
             /\ Len(acceptanceCriteria(wf'.plan)) >= 1
             /\ wf'.plan.playbook = pre.pendingPlaybook
             /\ conv'.pendingQuestions = Null
             /\ conv'.pendingPlaybook = Null]_vars

\* C28: a planning operation that completes without error and returns no
\* plan has suspended on the human: the workflow has pending questions or a
\* pending playbook proposal.
C28_NoPlanMeansSuspended ==
  (inflight = Null /\ last.op \in ConvOps /\ last.outcome = "no_plan_yet")
    => SlotFilled

\* C29: every fatal error a core operation raises (resume with nothing
\* pending, refine with no plan or no conversation state) carries the
\* workflow identifier and the workflow's current phase.
C29_FatalErrorsCarryIdAndPhase ==
  (inflight = Null /\ last.outcome \in FatalOutcomes)
    => {"workflowId", "phase"} \subseteq ErrorThrown(last.op, last.outcome).carries

----------------------------------------------------------------------------
(* Properties of the review history, checked under SpecHistory *)

\* C30: the review history is append-only. A review() that completes
\* appends exactly one result, the one its session returned, at the end of
\* the history, whose earlier entries stay as they were and where they
\* were; a review() that fails or is refused appends none; no other
\* operation on the workflow (plan, refine, iterate, route, complete, and
\* their agent steps) adds, removes, reorders or alters an entry.
C30_ReviewHistoryAppendOnly ==
  [][IF inflight = "review" /\ last'.outcome = "reviewed"
       THEN /\ Len(wf'.reviews) = Len(wf.reviews) + 1
            /\ SubSeq(wf'.reviews, 1, Len(wf.reviews)) = wf.reviews
            /\ wf'.reviews[Len(wf'.reviews)] = returning.review
            /\ returning.review \in ReviewResults
       ELSE wf'.reviews = wf.reviews
    ]_vars

\* A second review has appended a result that differs from the first, the
\* result was routed, and a later iteration has planned again with both
\* entries in place.
C30_Witness ==
  /\ Len(wf.reviews) = 2
  /\ wf.reviews[1] # wf.reviews[2]
  /\ routed.result = wf.reviews[2]
  /\ last = [op |-> "iterate", outcome |-> "plan"]

----------------------------------------------------------------------------
(* Further properties of plan assembly, checked under SpecAssemble *)

\* C31: plan assembly is idempotent and free of side effects: the
\* defaulting step applied to its own output yields the tasks of the first
\* application (same order, same field values), and no application changes
\* the raw output or the conversation state.
C31_AssemblyIdempotent ==
  [][/\ arg' = arg
     /\ conv' = conv
     /\ ret'.again => ret'.tasks = ret'.first]_vars

\* Two tasks, one of them with omitted fields and a status of the model's,
\* went through the defaulting step twice.
C31_Witness ==
  /\ ret.again
  /\ Len(arg) = 2
  /\ arg[1].risk = <<>> /\ arg[1].status = <<"done">>
  /\ arg[2].dependsOn = <<(<<1>>)>>

\* C32: plan assembly accepts a task whose dependency list names a task
\* identifier no task of the plan has: the tasks are built and the
\* dependency is kept as given.
C32_UnknownDependencyKept ==
  ret.done =>
    \A i \in 1..Len(arg) :
      arg[i].dependsOn = <<(<<7>>)>> => ret.tasks[i].dependsOn = <<7>>

\* A plan whose second task depends on a task 7 was assembled.
C32_Witness ==
  /\ ret.done
  /\ Len(arg) = 2
  /\ arg[2].dependsOn = <<(<<7>>)>>
  /\ Len(ret.tasks) = 2

----------------------------------------------------------------------------
(* Properties of the transcript and of the pending slots, checked under     *)
(* SpecConv *)

\* C33: refinement only runs when no structured call is outstanding:
\* whenever refinePlan() is accepted and appends its user turn to the
\* transcript, both pending slots are empty.
C33_RefineOnlyWhenNothingPending ==
  [][Reaches("refinePlan") => ~SlotFilled]_vars

IsPrefix(s, t) == Len(s) <= Len(t) /\ SubSeq(t, 1, Len(s)) = s

\* C34: once planning has started, the conversation state lives until
\* reset: every other step (a further plan() included) keeps the state,
\* only appends to the transcript, and never forgets the accepted template.
C34_ConversationLivesUntilReset ==
  [][(conv.exists /\ ~(inflight = Null /\ last'.op = "reset")) =>
       /\ conv'.exists
       /\ IsPrefix(conv.messages, conv'.messages)
       /\ (conv.acceptedPlaybook # Null => conv'.acceptedPlaybook # Null)]_vars

Alternates(msgs) ==
  \A i \in 1..Len(msgs) :
    msgs[i].role = (IF i % 2 = 1 THEN "user" ELSE "assistant")

EmitsPlan(m) ==
  /\ m.role = "assistant"
  /\ \E j \in 1..Len(m.content) :
       m.content[j].type = "tool_use" /\ m.content[j].name = OUTPUT

\* C35: transcript continuity after a plan: whenever the agent is invoked
\* for a refinement, the transcript it receives holds the agent turn that
\* emitted the plan, and its turns alternate between user and agent,
\* starting with a user turn.
C35_RefinementTranscriptContinuous ==
  [][Reaches("refinePlan") =>
       /\ \E i \in 1..Len(conv'.messages) : EmitsPlan(conv'.messages[i])
       /\ Alternates(conv'.messages)]_vars

\* The suspended planning operation gets its agent response and completes.
CycleCompletes ==
  inflight \in ConvOps /\ inflight' = Null /\ last'.outcome # "agent_error"

\* C36: a plan_ready event is emitted in a conversation cycle if and only
\* if that cycle returns the plan to its caller, also when one agent
\* response holds more than one structured call.
C36_PlanReadyIffPlanReturned ==
  [][CycleCompletes =>
       ((\E i \in 1..Len(emitted') : emitted'[i] = "plan_ready")
          <=> last'.outcome = "plan")]_vars

----------------------------------------------------------------------------
(* Properties of iterate() and of the review history, checked under         *)
(* SpecFlow and SpecScore *)

\* C37: iterate() on a workflow whose review history is empty fails with
\* an error, without invoking the agent, and leaves the workflow's phase
\* and iteration counter unchanged.
C37_IterateWithoutReviewFailsCleanly ==
  [][(inflight = Null /\ last'.op = "iterate" /\ wf.reviews = <<>>) =>
       /\ last'.outcome # "running"
       /\ inflight' = Null
       /\ wf'.phase = wf.phase
       /\ wf'.iterations = wf.iterations]_vars

\* C38: the confidence of every review result the scorer produces (and
\* review() appends to the history) is an integer in the range 0 to 100,
\* whatever number the narrative states.
C38_ConfidenceWithinRange ==
  (ret.done /\ ret.error = Null) => ret.review.confidence \in 0..100

----------------------------------------------------------------------------
(* Properties of the pending-state queries and of the structured-call       *)
(* identifier, checked under SpecConv *)

\* C39: the pending-state queries agree with each other and with the
\* resume guards, also for a workflow without conversation state:
\* hasPendingQuestions is true exactly when getPendingQuestions is non-null,
\* exactly when continueWithAnswers passes its pending check; likewise for
\* hasPendingPlaybook and getPendingPlaybook.
C39_PendingQueriesAgree ==
  /\ hasPendingQuestions(conv) <=> (getPendingQuestions(conv) # Null)
  /\ hasPendingQuestions(conv) <=> ~NoPendingQuestions(conv)
  /\ hasPendingPlaybook(conv) <=> (getPendingPlaybook(conv) # Null)
  /\ hasPendingPlaybook(conv) <=> ~NoPendingPlaybook(conv)

FallbackIds ==
  {FallbackId(name) :
     name \in {"questions_answered", "playbook_accepted", "playbook_rejected"}}

\* C40: in every reachable conversation state, if pending questions or a
\* pending template is set then the last structured-call identifier is
\* set, so no tool result of the transcript carries one of the fallback
\* identifiers 'questions_answered', 'playbook_accepted',
\* 'playbook_rejected'.
C40_PendingImpliesToolUseId ==
  /\ SlotFilled => conv.lastToolUseId # NoId
  /\ \A i \in 1..Len(conv.messages) :
       conv.messages[i].tool_use_id \notin FallbackIds

\* Questions were answered with a tool result addressed to the agent's
\* call, and a playbook proposal is pending now.
C40_Witness ==
  /\ conv.pendingPlaybook # Null
  /\ conv.pendingQuestions = Null
  /\ conv.lastToolUseId = ToolUseId(2)
  /\ \E i \in 1..Len(conv.messages) :
       /\ conv.messages[i].kind = "tool_result"
       /\ conv.messages[i].tool_use_id = ToolUseId(1)

====
